---- MODULE Spec2Model ----
(***************************************************************************)
(* Model of the competitor-intelligence scraping workflow:                 *)
(*   Web_scraping/query_builder.py   LinkupQueryBuilder                    *)
(*   Web_scraping/llinkupscraper.py  LinkupScraper                         *)
(*   Web_scraping/schema.py          TeammateOutput, ScrapedData           *)
(*   Web_scraping/main.py            the service around the scraper        *)
(* and of the media generation and the wizard around it:                   *)
(*   src/main.py                     generate_image_video                  *)
(*   generate_ad.py                  generate_image                        *)
(*   src/app.py                      the chatbot wizard                    *)
(*                                                                         *)
(* Python values are represented as follows.                               *)
(*   None            the record None                                       *)
(*   a list or None  List(s), s a sequence          (Optional[List[str]])  *)
(*   a str or None   Str(s),  s a TLA+ string       (Optional[str])        *)
(*   a dict          a sequence of [k, v] entries in insertion order       *)
(*   an answer text  a sequence of one-character strings                   *)
(*   an object       a record of its attributes                            *)
(***************************************************************************)
EXTENDS Integers, Sequences, FiniteSets, TLC

VARIABLES
    pc,               \* position of scrape_for_ad: idle, primary, assess, fallback, structure,
                      \* done, served (back in the caller, a request behind it)
    teammate_output,  \* the request being served (TeammateOutput)
    ad_type,          \* scrape_for_ad local
    category,         \* scrape_for_ad local
    queries,          \* scrape_for_ad local: the primary query batch (dict)
    search_results,   \* scrape_for_ad local: results of the primary batch (dict)
    data_quality,     \* scrape_for_ad local
    category_queries, \* scrape_for_ad local: the fallback batch (dict)
    category_results, \* scrape_for_ad local: results of the fallback batch (dict)
    category_data,    \* scrape_for_ad local
    scraped_data,     \* the value scrape_for_ad returns
    calls,            \* query texts handed to linkup_client.search, in call order
    arg,              \* argument of a function applied on its own
    ret,              \* its return value
    environ,          \* os.getenv("LINKUP_API_KEY") of the process
    scraper,          \* the LinkupScraper in use (main.py: the module global)
    http_response,    \* the last response of POST /scrape or POST /api/generate-media
    attempt,          \* generate_image_video: polls made in the current polling loop
    media_url,        \* generate_image_video local
    base_image_url,   \* generate_image_video local
    sent,             \* requests made to the Freepik API, in order
    api_answer,       \* what the Freepik API answered to the last of them
    received,         \* generate_ad.py: HTTP status codes the status requests were answered with
    chat_step,        \* app.py: st.session_state.chat_step
    user_info,        \* app.py: st.session_state.user_info (dict)
    messages,         \* app.py: st.session_state.messages (list)
    ads_generated     \* app.py: st.session_state.ads_generated

vars == <<pc, teammate_output, ad_type, category, queries, search_results,
          data_quality, category_queries, category_results, category_data,
          scraped_data, calls, arg, ret, environ, scraper, http_response,
          attempt, media_url, base_image_url, sent, api_answer,
          received, chat_step, user_info, messages, ads_generated>>
\* the variables of the service around the scraper
service == <<environ, scraper, http_response>>
\* the variables of generate_image_video (src/main.py)
media == <<attempt, media_url, base_image_url, sent, api_answer>>
\* the variables of the chatbot wizard (src/app.py) and of generate_ad.py
frontend == <<received, chat_step, user_info, messages, ads_generated>>

---------------------------------------------------------------------------
(* Python values *)

None == [none |-> TRUE]
List(s) == [items |-> s]
Str(s) == [str |-> s]

\* bool(v): None, the empty list and the empty string are falsy, objects truthy
Truthy(v) ==
    CASE v = None -> FALSE
      [] "items" \in DOMAIN v -> Len(v.items) > 0
      [] "str" \in DOMAIN v -> v.str # ""
      [] OTHER -> TRUE

Min(a, b) == IF a < b THEN a ELSE b

\* s[:n]
Take(s, n) == SubSeq(s, 1, Min(n, Len(s)))

\* dict: insertion-ordered entries with unique keys
KV(key, val) == [k |-> key, v |-> val]
DictKeys(d) == [i \in 1..Len(d) |-> d[i].k]
DictKeySet(d) == {d[i].k : i \in 1..Len(d)}
DictHas(d, key) == \E i \in 1..Len(d) : d[i].k = key
DictGet(d, key) == d[CHOOSE i \in 1..Len(d) : d[i].k = key].v
\* d[key] = val
DictSet(d, key, val) ==
    IF DictHas(d, key)
    THEN [i \in 1..Len(d) |-> IF d[i].k = key THEN KV(key, val) ELSE d[i]]
    ELSE Append(d, KV(key, val))

---------------------------------------------------------------------------
(* Web_scraping/query_builder.py *)

\* f"competitor_{i}_overview" and its siblings
CompetitorKey(i, suffix) == "competitor_" \o ToString(i) \o "_" \o suffix

\* A query text: the f-string template and the values interpolated into it.
QueryText(tmpl, names, msgs, cat, subj, price) ==
    [tmpl |-> tmpl, names |-> names, msgs |-> msgs,
     category |-> cat, subject |-> subj, price |-> price]

\* ', '.join(key_messages[:2]) if key_messages else 'better features'
VsUsMessages(key_messages) ==
    IF Truthy(key_messages) THEN Take(key_messages.items, 2) ELSE <<"better features">>

\* the three queries of competitor i, inserted in this order
RECURSIVE CompetitorQueries(_, _, _, _)
CompetitorQueries(queries0, top, key_messages, i) ==
    IF i > Len(top) THEN queries0
    ELSE LET q1 == DictSet(queries0, CompetitorKey(i, "overview"),
                     QueryText("features_price_specifications_of", <<top[i]>>, <<>>, "", "", ""))
             q2 == DictSet(q1, CompetitorKey(i, "weaknesses"),
                     QueryText("complaints_and_problems_with", <<top[i]>>, <<>>, "", "", ""))
             q3 == DictSet(q2, CompetitorKey(i, "vs_us"),
                     QueryText("compare_to_product_with", <<top[i]>>,
                               VsUsMessages(key_messages), "", "", ""))
         IN  CompetitorQueries(q3, top, key_messages, i + 1)

\* a builder that takes the whole list
TopCompetitors_NoCap(competitors) == competitors.items

\* competitors[:2] ("Top 2")
TopCompetitors(competitors) == Take(competitors.items, 2)

\* lines 46-61: the per-competitor queries, or the two generic ones
CompetitorPart(cat, key_messages, competitors) ==
    IF Truthy(competitors) /\ Len(competitors.items) > 0
    THEN CompetitorQueries(<<>>, TopCompetitors(competitors), key_messages, 1)
    ELSE <<KV("identify_competitors",
              QueryText("top_2_competitors_in_market", <<>>, <<>>, cat, "", "")),
           KV("market_pain_points",
              QueryText("common_complaints_in_market", <<>>, <<>>, cat, "", ""))>>

\* a builder without the generic price comparison
PricingPart_NoLandscape(queries0, subject, cat, our_price, competitors) ==
    IF Truthy(our_price) /\ Truthy(competitors)
    THEN DictSet(queries0, "pricing_comparison",
                 QueryText("compare_price_with", TopCompetitors(competitors), <<>>,
                           "", subject, our_price.str))
    ELSE queries0

\* lines 67-75: the price comparison, if we have our price
PricingPart(queries0, subject, cat, our_price, competitors) ==
    IF Truthy(our_price)
    THEN IF Truthy(competitors)
         THEN DictSet(queries0, "pricing_comparison",
                      QueryText("compare_price_with", TopCompetitors(competitors), <<>>,
                                "", subject, our_price.str))
         ELSE DictSet(queries0, "pricing_landscape",
                      QueryText("typical_prices_in_market", <<>>, <<>>,
                                cat, "", our_price.str))
    ELSE queries0

\* lines 77-79: validate our key messages
ClaimsPart(queries0, cat, key_messages) ==
    IF Truthy(key_messages)
    THEN DictSet(queries0, "validate_claims",
                 QueryText("do_customers_care_about", <<>>,
                           Take(key_messages.items, 2), cat, "", ""))
    ELSE queries0

product_queries(subject, cat, key_messages, our_price, competitors) ==
    LET q0 == CompetitorPart(cat, key_messages, competitors)
        q1 == DictSet(q0, "market_gaps",
                      QueryText("unmet_needs_and_gaps", <<>>, <<>>, cat, subject, ""))
        q2 == PricingPart(q1, subject, cat, our_price, competitors)
    IN  ClaimsPart(q2, cat, key_messages)

event_queries(subject, cat) ==
    <<KV("event_success_history", QueryText("attendance_and_success_metrics", <<>>, <<>>, "", subject, "")),
      KV("attendee_testimonials", QueryText("what_attendees_say", <<>>, <<>>, "", subject, "")),
      KV("event_highlights", QueryText("achievements_and_highlights", <<>>, <<>>, "", subject, "")),
      KV("organizer_credibility", QueryText("organizer_reputation", <<>>, <<>>, "", subject, "")),
      KV("networking_value", QueryText("networking_and_career_opportunities", <<>>, <<>>, "", subject, ""))>>

job_queries(subject, cat) ==
    <<KV("company_culture", QueryText("company_culture_at", <<>>, <<>>, "", subject, "")),
      KV("work_life_balance", QueryText("work_life_balance_at", <<>>, <<>>, "", subject, "")),
      KV("compensation_benefits", QueryText("salary_and_benefits_at", <<>>, <<>>, "", subject, "")),
      KV("career_growth", QueryText("career_growth_opportunities", <<>>, <<>>, "", subject, "")),
      KV("employee_satisfaction", QueryText("what_employees_say", <<>>, <<>>, "", subject, "")),
      KV("company_stability", QueryText("financial_stability_and_outlook", <<>>, <<>>, "", subject, ""))>>

generic_queries(subject) ==
    <<KV("general_info", QueryText("key_features_and_reviews", <<>>, <<>>, "", subject, ""))>>

\* a dispatch that treats an event as a product
get_queries_EventAsProduct(type, subject, cat, key_messages, our_price, competitors) ==
    IF type = "job" THEN job_queries(subject, cat)
    ELSE product_queries(subject, cat, key_messages, our_price, competitors)

get_queries(type, subject, cat, key_messages, our_price, competitors) ==
    IF type = "product"
    THEN product_queries(subject, cat, key_messages, our_price, competitors)
    ELSE IF type = "event" THEN event_queries(subject, cat)
    ELSE IF type = "job" THEN job_queries(subject, cat)
    ELSE generic_queries(subject)

\* a fallback batch with a third query
get_category_queries_Trends(cat) ==
    <<KV("category_overview", QueryText("key_players_and_trends", <<>>, <<>>, cat, "", "")),
      KV("customer_needs", QueryText("features_and_needs_customers_want", <<>>, <<>>, cat, "", "")),
      KV("category_trends", QueryText("trends", <<>>, <<>>, cat, "", ""))>>

get_category_queries(cat) ==
    <<KV("category_overview", QueryText("key_players_and_trends", <<>>, <<>>, cat, "", "")),
      KV("customer_needs", QueryText("features_and_needs_customers_want", <<>>, <<>>, cat, "", ""))>>

---------------------------------------------------------------------------
(* Text: an answer is a sequence of characters *)

BULLET == "u2022"
Whitespace == {" ", "\t", "\n", "\r"}
BulletChars == {"-", " ", BULLET}

Rep(c, n) == [i \in 1..n |-> c]

RECURSIVE LStrip(_, _)
LStrip(s, cs) == IF Len(s) > 0 /\ s[1] \in cs THEN LStrip(Tail(s), cs) ELSE s

RECURSIVE RStrip(_, _)
RStrip(s, cs) ==
    IF Len(s) > 0 /\ s[Len(s)] \in cs THEN RStrip(SubSeq(s, 1, Len(s) - 1), cs) ELSE s

\* str.strip(chars); str.strip() is Strip(s, Whitespace)
Strip(s, cs) == RStrip(LStrip(s, cs), cs)

\* str.split('\n')
RECURSIVE Split(_)
Split(s) ==
    IF \E i \in 1..Len(s) : s[i] = "\n"
    THEN LET i == CHOOSE j \in 1..Len(s) : s[j] = "\n" /\ \A h \in 1..(j - 1) : s[h] # "\n"
         IN  <<SubSeq(s, 1, i - 1)>> \o Split(SubSeq(s, i + 1, Len(s)))
    ELSE <<s>>

\* '\n'.join(lines)
RECURSIVE Join(_)
Join(lines) ==
    IF Len(lines) = 0 THEN <<>>
    ELSE IF Len(lines) = 1 THEN lines[1]
    ELSE lines[1] \o <<"\n">> \o Join(Tail(lines))

MinLineLen == 10

\* an extraction without the length filter
ExtractLines_KeepsShort(answer) ==
    LET kept == SelectSeq(Split(answer), LAMBDA line : Len(Strip(line, Whitespace)) > 0)
    IN  [i \in 1..Len(kept) |-> Strip(Strip(kept[i], BulletChars), Whitespace)]

\* [line.strip('- •').strip() for line in answer.split('\n')
\*      if line.strip() and len(line.strip()) > 10]
ExtractLines(answer) ==
    LET kept == SelectSeq(Split(answer),
                          LAMBDA line : /\ Len(Strip(line, Whitespace)) > 0
                                        /\ Len(Strip(line, Whitespace)) > MinLineLen)
    IN  [i \in 1..Len(kept) |-> Strip(Strip(kept[i], BulletChars), Whitespace)]

\* getattr(result, 'answer', ''), getattr(result, 'sources', [])
AnswerOf(result) == IF "answer" \in DOMAIN result THEN result.answer ELSE <<>>
SourcesOf(result) == IF "sources" \in DOMAIN result THEN result.sources ELSE <<>>
\* [getattr(s, 'name', '') for s in sources[:3]], and the same for 'url'
SourceNames(sources) == [i \in 1..Min(3, Len(sources)) |-> sources[i].name]
\* the urls of every source
SourceUrls_Uncapped(sources) == [i \in 1..Len(sources) |-> sources[i].url]
SourceUrls(sources) == [i \in 1..Min(3, Len(sources)) |-> sources[i].url]

\* the table of a market-gap test that looks for 'market' alone
SubstringTable_Market ==
    [market_gaps  |-> {"market_gaps", "market_pain_points"},
     pricing      |-> {"pricing_comparison", "pricing_landscape"},
     success      |-> {"event_success_history"},
     testimonial  |-> {"attendee_testimonials"},
     culture      |-> {"company_culture"},
     balance      |-> {"work_life_balance"},
     benefit      |-> {"compensation_benefits"},
     compensation |-> {"compensation_benefits"}]

\* `kw in query_name` for the keywords the structurers test, over the query ids
\* the builder can produce
SubstringTable ==
    [market_gaps  |-> {"market_gaps"},
     pricing      |-> {"pricing_comparison", "pricing_landscape"},
     success      |-> {"event_success_history"},
     testimonial  |-> {"attendee_testimonials"},
     culture      |-> {"company_culture"},
     balance      |-> {"work_life_balance"},
     benefit      |-> {"compensation_benefits"},
     compensation |-> {"compensation_benefits"}]

KeywordIn(kw, query_name) == query_name \in SubstringTable[kw]

\* a filter without the `and result` test
Matching_IgnoresFailure(results, kws) ==
    SelectSeq(results, LAMBDA e : \E kw \in kws : KeywordIn(kw, e.k))

\* the results a loop `for query_name, result in search_results.items()` acts on
\* under the filter `kw in query_name and result`, in iteration order
Matching(results, kws) ==
    SelectSeq(results, LAMBDA e : (\E kw \in kws : KeywordIn(kw, e.k)) /\ Truthy(e.v))

---------------------------------------------------------------------------
(* Web_scraping/schema.py *)

\* ScrapedData with every field at its declared default
ScrapedData ==
    [company_info |-> <<>>, product_details |-> <<>>,
     competitor_analysis |-> <<>>, how_to_beat_them |-> <<>>, pricing_comparison |-> <<>>,
     event_success_metrics |-> <<>>, attendee_testimonials |-> <<>>,
     company_culture |-> <<>>, work_life_balance |-> <<>>, benefits_info |-> <<>>,
     market_gaps |-> <<>>, recent_news |-> <<>>, category_insights |-> <<>>,
     data_quality |-> "", sources_scraped |-> <<>>, scraping_timestamp |-> ""]

---------------------------------------------------------------------------
(* Web_scraping/llinkupscraper.py *)

\* lines 12-19: the constructor returns the object or raises ValueError
ValueError == [raised |-> "ValueError", message |-> "Linkup API key required!"]
LinkupScraper(linkup_api_key, env) ==
    LET key == IF Truthy(linkup_api_key) THEN linkup_api_key ELSE env
    IN  IF ~Truthy(key) THEN ValueError ELSE [linkup_api_key |-> key.str]

\* A description is given by the set of keywords that occur in its lower-cased
\* text (`word in desc_lower`).
infer_category(description) ==
    IF \E word \in {"smartphone", "phone"} : word \in description THEN "smartphones"
    ELSE IF \E word \in {"laptop", "computer"} : word \in description THEN "laptops"
    ELSE IF \E word \in {"software", "app"} : word \in description THEN "software"
    ELSE IF \E word \in {"hackathon", "conference"} : word \in description THEN "tech events"
    ELSE "technology"

\* an inference that looks for the event words first
infer_ad_type_EventFirst(teammate_data) ==
    LET desc == teammate_data.short_description
    IN  IF \E word \in {"hackathon", "conference", "event"} : word \in desc THEN "event"
        ELSE IF \E word \in {"hiring", "position", "role"} : word \in desc THEN "job"
        ELSE "product"

infer_ad_type(teammate_data) ==
    LET desc == teammate_data.short_description
    IN  IF \E word \in {"hiring", "position", "role"} : word \in desc THEN "job"
        ELSE IF \E word \in {"hackathon", "conference", "event"} : word \in desc THEN "event"
        ELSE "product"

\* a grading with strict comparisons at the thresholds
assess_quality_StrictThreshold(results) ==
    IF Len(results) = 0 THEN "MINIMAL"
    ELSE LET successful == Cardinality({i \in 1..Len(results) : results[i].v # None})
             total == Len(results)
         IN  IF 10 * successful > 7 * total THEN "SUFFICIENT"
             ELSE IF 10 * successful > 3 * total THEN "PARTIAL"
             ELSE "MINIMAL"

\* rate = successful / total is compared with 0.7 and 0.3 in floating point; for
\* these integers rate >= 0.7 exactly when 10 * successful >= 7 * total, and
\* rate >= 0.3 exactly when 10 * successful >= 3 * total.
assess_quality(results) ==
    IF Len(results) = 0 THEN "MINIMAL"
    ELSE LET successful == Cardinality({i \in 1..Len(results) : results[i].v # None})
             total == Len(results)
         IN  IF 10 * successful >= 7 * total THEN "SUFFICIENT"
             ELSE IF 10 * successful >= 3 * total THEN "PARTIAL"
             ELSE "MINIMAL"

\* a fallback step that runs whatever the tier
NeedsFallback_Always(quality) == TRUE

\* data_quality in ["PARTIAL", "MINIMAL"]
NeedsFallback(quality) == quality \in {"PARTIAL", "MINIMAL"}

\* a filter that keeps the failed entries
process_results_KeepsFailed(results) == results

\* {k: v for k, v in results.items() if v}
process_results(results) == SelectSeq(results, LAMBDA e : Truthy(e.v))

\* `key in search_results and search_results[key]`
HasResult(results, key) == DictHas(results, key) /\ Truthy(DictGet(results, key))

\* a comp_data that reads the weaknesses of the first competitor for every block
CompData_FirstWeaknesses(results, comp_name, i) ==
    LET overview_key == CompetitorKey(i, "overview")
        weakness_key == CompetitorKey(1, "weaknesses")
        vs_key == CompetitorKey(i, "vs_us")
        overview ==
            IF HasResult(results, overview_key)
            THEN LET result == DictGet(results, overview_key)
                 IN  <<KV("description", AnswerOf(result)),
                       KV("features", SourceNames(SourcesOf(result))),
                       KV("sources", SourceUrls(SourcesOf(result)))>>
            ELSE <<>>
        weaknesses ==
            IF HasResult(results, weakness_key)
            THEN Take(ExtractLines(AnswerOf(DictGet(results, weakness_key))), 5)
            ELSE <<>>
        comparisons ==
            IF HasResult(results, vs_key)
            THEN Take(ExtractLines(AnswerOf(DictGet(results, vs_key))), 3)
            ELSE <<>>
    IN  <<KV("name", comp_name), KV("overview", overview),
          KV("weaknesses", weaknesses), KV("how_we_beat_them", comparisons)>>

\* lines 206-244: comp_data of competitor i
CompData(results, comp_name, i) ==
    LET overview_key == CompetitorKey(i, "overview")
        weakness_key == CompetitorKey(i, "weaknesses")
        vs_key == CompetitorKey(i, "vs_us")
        overview ==
            IF HasResult(results, overview_key)
            THEN LET result == DictGet(results, overview_key)
                 IN  <<KV("description", AnswerOf(result)),
                       KV("features", SourceNames(SourcesOf(result))),
                       KV("sources", SourceUrls(SourcesOf(result)))>>
            ELSE <<>>
        weaknesses ==
            IF HasResult(results, weakness_key)
            THEN Take(ExtractLines(AnswerOf(DictGet(results, weakness_key))), 5)
            ELSE <<>>
        comparisons ==
            IF HasResult(results, vs_key)
            THEN Take(ExtractLines(AnswerOf(DictGet(results, vs_key))), 3)
            ELSE <<>>
    IN  <<KV("name", comp_name), KV("overview", overview),
          KV("weaknesses", weaknesses), KV("how_we_beat_them", comparisons)>>

RECURSIVE BreakdownLoop(_, _, _, _)
BreakdownLoop(breakdown, results, top, i) ==
    IF i > Len(top) THEN breakdown
    ELSE BreakdownLoop(
             DictSet(breakdown, "competitor_" \o ToString(i), CompData(results, top[i], i)),
             results, top, i + 1)

\* lines 202-244: for i, comp_name in enumerate(competitors[:2], 1)
CompetitorBreakdown(results, competitors) ==
    IF Truthy(competitors)
    THEN BreakdownLoop(<<>>, results, Take(competitors.items, 2), 1)
    ELSE <<>>

\* lines 246-251; the last matching result wins
MarketGaps(results) ==
    LET m == Matching(results, {"market_gaps"})
    IN  IF Len(m) = 0 THEN <<>> ELSE Take(ExtractLines(AnswerOf(m[Len(m)].v)), 5)

\* a pricing loop without the `and result` test
PriceComparison_IgnoresFailure(results, our_price) ==
    LET m == SelectSeq(results, LAMBDA e : KeywordIn("pricing", e.k))
    IN  IF Len(m) = 0 THEN <<>>
        ELSE LET result == m[Len(m)].v
             IN  <<KV("our_price", IF Truthy(our_price) THEN our_price.str ELSE "Not specified"),
                   KV("market_analysis", AnswerOf(result)),
                   KV("sources", SourceUrls(SourcesOf(result)))>>

\* a pricing loop that forgets the caller's price
PriceComparison_DropsPrice(results, our_price) ==
    LET m == Matching(results, {"pricing"})
    IN  IF Len(m) = 0 THEN <<>>
        ELSE LET result == m[Len(m)].v
             IN  <<KV("our_price", "Not specified"),
                   KV("market_analysis", AnswerOf(result)),
                   KV("sources", SourceUrls(SourcesOf(result)))>>

\* lines 253-262; the last matching result wins
PriceComparison(results, our_price) ==
    LET m == Matching(results, {"pricing"})
    IN  IF Len(m) = 0 THEN <<>>
        ELSE LET result == m[Len(m)].v
             IN  <<KV("our_price", IF Truthy(our_price) THEN our_price.str ELSE "Not specified"),
                   KV("market_analysis", AnswerOf(result)),
                   KV("sources", SourceUrls(SourcesOf(result)))>>

\* an aggregation that stops after the first competitor
AllWeaknesses_FirstOnly(breakdown) ==
    IF Len(breakdown) = 0 THEN <<>> ELSE DictGet(breakdown[1].v, "weaknesses")

\* lines 265-267: all_weaknesses
RECURSIVE AllWeaknesses(_)
AllWeaknesses(breakdown) ==
    IF Len(breakdown) = 0 THEN <<>>
    ELSE DictGet(breakdown[1].v, "weaknesses") \o AllWeaknesses(Tail(breakdown))

AddressText == <<"A", "d", "d", "r", "e", "s", "s", " ">>
FillGapText == <<"F", "i", "l", "l", " ", "g", "a", "p", ":", " ">>
CompetitorWeaknessText ==
    <<"c", "o", "m", "p", "e", "t", "i", "t", "o", "r", " ",
      "w", "e", "a", "k", "n", "e", "s", "s">>
UnmetNeedText == <<"u", "n", "m", "e", "t", " ", "n", "e", "e", "d">>

\* lines 269-276
HowToBeat(breakdown, market_gaps) ==
    LET all_weaknesses == AllWeaknesses(breakdown)
    IN  <<KV("exploit_competitor_weaknesses", Take(all_weaknesses, 5)),
          KV("fill_market_gaps", Take(market_gaps, 3)),
          KV("competitive_advantages",
             <<AddressText \o (IF Len(all_weaknesses) > 0 THEN all_weaknesses[1]
                               ELSE CompetitorWeaknessText),
               FillGapText \o (IF Len(market_gaps) > 0 THEN market_gaps[1]
                               ELSE UnmetNeedText)>>)>>

structure_product_data(results, cat_data, quality, subject, our_price, competitors, now) ==
    LET competitor_breakdown == CompetitorBreakdown(results, competitors)
        market_gaps == MarketGaps(results)
    IN  [ScrapedData EXCEPT
            !.company_info = <<KV("product_name", subject)>>,
            !.product_details =
                <<KV("positioning", "NEW product with competitive advantages")>>,
            !.competitor_analysis = competitor_breakdown,
            !.how_to_beat_them = HowToBeat(competitor_breakdown, market_gaps),
            !.market_gaps = market_gaps,
            !.pricing_comparison = PriceComparison(results, our_price),
            !.category_insights = cat_data,
            !.data_quality = quality,
            !.scraping_timestamp = now]

\* testimonials taken with the extraction that has no length filter
EventTestimonials_Uncut(results) ==
    LET m == Matching(results, {"testimonial"})
    IN  IF Len(m) = 0 THEN <<>> ELSE Take(ExtractLines_KeepsShort(AnswerOf(m[Len(m)].v)), 5)

\* lines 308-310; the last matching result wins
EventTestimonials(results) ==
    LET m == Matching(results, {"testimonial"})
    IN  IF Len(m) = 0 THEN <<>> ELSE Take(ExtractLines(AnswerOf(m[Len(m)].v)), 5)

\* lines 301-306; the last matching result wins
EventSuccessMetrics(results) ==
    LET m == Matching(results, {"success"})
    IN  IF Len(m) = 0 THEN <<>>
        ELSE <<KV("attendance", AnswerOf(m[Len(m)].v)),
               KV("sources", SourceUrls(SourcesOf(m[Len(m)].v)))>>

structure_event_data(results, cat_data, quality, subject, now) ==
    [ScrapedData EXCEPT
        !.company_info = <<KV("event_name", subject)>>,
        !.event_success_metrics = EventSuccessMetrics(results),
        !.attendee_testimonials = EventTestimonials(results),
        !.category_insights = cat_data,
        !.data_quality = quality,
        !.scraping_timestamp = now]

SalaryCut == 200
Ellipsis == <<".", ".", ".">>

\* a job structurer that cuts the salary text from 200 characters on
structure_job_data_CutsAtCut(results, cat_data, quality, subject, now) ==
    LET c == Matching(results, {"culture"})
        b == Matching(results, {"balance"})
        p == Matching(results, {"benefit", "compensation"})
        culture ==
            IF Len(c) = 0 THEN <<>>
            ELSE LET answer == AnswerOf(c[Len(c)].v)
                 IN  <<KV("highlights", answer), KV("reviews", Take(ExtractLines(answer), 3))>>
        balance ==
            IF Len(b) = 0 THEN <<>>
            ELSE LET answer == AnswerOf(b[Len(b)].v)
                 IN  <<KV("rating", answer), KV("feedback", Take(ExtractLines(answer), 3))>>
        benefits ==
            IF Len(p) = 0 THEN <<>>
            ELSE LET answer == AnswerOf(p[Len(p)].v)
                 IN  <<KV("salary", IF Len(answer) >= SalaryCut
                                    THEN Take(answer, SalaryCut) \o Ellipsis ELSE answer),
                       KV("perks", Take(ExtractLines(answer), 5))>>
    IN  [ScrapedData EXCEPT
            !.company_info = <<KV("company_name", subject)>>,
            !.company_culture = culture,
            !.work_life_balance = balance,
            !.benefits_info = benefits,
            !.category_insights = cat_data,
            !.data_quality = quality,
            !.scraping_timestamp = now]

structure_job_data(results, cat_data, quality, subject, now) ==
    LET c == Matching(results, {"culture"})
        b == Matching(results, {"balance"})
        p == Matching(results, {"benefit", "compensation"})
        culture ==
            IF Len(c) = 0 THEN <<>>
            ELSE LET answer == AnswerOf(c[Len(c)].v)
                 IN  <<KV("highlights", answer), KV("reviews", Take(ExtractLines(answer), 3))>>
        balance ==
            IF Len(b) = 0 THEN <<>>
            ELSE LET answer == AnswerOf(b[Len(b)].v)
                 IN  <<KV("rating", answer), KV("feedback", Take(ExtractLines(answer), 3))>>
        benefits ==
            IF Len(p) = 0 THEN <<>>
            ELSE LET answer == AnswerOf(p[Len(p)].v)
                 IN  <<KV("salary", IF Len(answer) > SalaryCut
                                    THEN Take(answer, SalaryCut) \o Ellipsis ELSE answer),
                       KV("perks", Take(ExtractLines(answer), 5))>>
    IN  [ScrapedData EXCEPT
            !.company_info = <<KV("company_name", subject)>>,
            !.company_culture = culture,
            !.work_life_balance = balance,
            !.benefits_info = benefits,
            !.category_insights = cat_data,
            !.data_quality = quality,
            !.scraping_timestamp = now]

\* any other ad_type falls off the end of the function, which returns None
structure_by_type(type, results, cat_data, quality, subject, our_price, competitors, now) ==
    IF type = "product"
    THEN structure_product_data(results, cat_data, quality, subject, our_price, competitors, now)
    ELSE IF type = "event" THEN structure_event_data(results, cat_data, quality, subject, now)
    ELSE IF type = "job" THEN structure_job_data(results, cat_data, quality, subject, now)
    ELSE None

---------------------------------------------------------------------------
(* Bounds and the inputs drawn within them *)

MaxCompetitors == 3   \* longest competitor list of a request
MaxTerse == 1         \* terse answers the search client gives within one request
MaxTotal == 10        \* largest result mapping handed to _assess_quality on its own

CompetitorName(i) == IF i = 1 THEN "Acme Pro" ELSE "Rival " \o ToString(i)
CompetitorList(n) == List([i \in 1..n |-> CompetitorName(i)])
KeyMessages == List(<<"fast", "light", "cheap">>)

\* TeammateOutput, restricted to the fields scrape_for_ad reads.  A description
\* stands for a product, an event or a job (with an event keyword as well).
Descriptions == {{"smartphone"}, {"conference", "hackathon"}, {"hiring", "event"}}
TeammateOutputs ==
    [product : {"Widget X"}, short_description : Descriptions,
     key_messages : {List(<<>>), KeyMessages},
     price : {None, Str("$50")},
     competitors : {None} \cup {CompetitorList(n) : n \in 1..MaxCompetitors}]

\* the arguments of get_queries called on its own: every kind of absent value
QueryArgs ==
    [ad_type : {"product", "event", "job", "other"}, subject : {"Widget X"},
     category : {"technology"},
     key_messages : {None, List(<<>>), KeyMessages},
     our_price : {None, Str(""), Str("$50")},
     competitors : {None} \cup {CompetitorList(n) : n \in 0..MaxCompetitors}]

\* datetime.now().isoformat()
Timestamps == {"2024-01-01T10:00:00"}

\* What linkup_client.search returns when it does not raise: an object with an
\* answer and sources.  A full answer has six lines longer than ten characters,
\* bulleted and not, and one short line; a terse one has none.
QueryUniverse ==
    <<"competitor_1_overview", "competitor_1_weaknesses", "competitor_1_vs_us",
      "competitor_2_overview", "competitor_2_weaknesses", "competitor_2_vs_us",
      "identify_competitors", "market_pain_points", "market_gaps",
      "pricing_comparison", "pricing_landscape", "validate_claims",
      "event_success_history", "attendee_testimonials", "event_highlights",
      "organizer_credibility", "networking_value",
      "company_culture", "work_life_balance", "compensation_benefits",
      "career_growth", "employee_satisfaction", "company_stability",
      "general_info", "category_overview", "customer_needs">>
Letters ==
    <<"a", "b", "c", "d", "e", "f", "g", "h", "i", "j", "k", "l", "m",
      "n", "o", "p", "q", "r", "s", "t", "u", "v", "w", "x", "y", "z">>
LetterOf(query_name) ==
    IF \E i \in 1..Len(QueryUniverse) : QueryUniverse[i] = query_name
    THEN Letters[CHOOSE i \in 1..Len(QueryUniverse) : QueryUniverse[i] = query_name]
    ELSE "?"

FullAnswer(query_name) ==
    LET c == LetterOf(query_name)
    IN  Join(<<<<"-", " ">> \o Rep(c, 11),
               Rep(c, 4),
               <<BULLET, " ">> \o Rep(c, 12),
               <<" ", " ">> \o Rep(c, 13) \o <<"\r">>,
               Rep(c, 14), Rep(c, 15), Rep(c, 16)>>)
SourcesFor(query_name) ==
    [i \in 1..4 |-> [name |-> "source " \o ToString(i) \o " of " \o query_name,
                     url |-> "https://" \o query_name \o "/" \o ToString(i)]]
FullResponse(query_name) == [answer |-> FullAnswer(query_name), sources |-> SourcesFor(query_name)]
TerseResponse == [answer |-> <<"G", "r", "e", "a", "t", "!">>, sources |-> <<>>]

---------------------------------------------------------------------------
(* scrape_for_ad, one step per call of linkup_client.search *)

\* generate_image_video is not running
MediaIdle ==
    /\ attempt = 0
    /\ media_url = None
    /\ base_image_url = None
    /\ sent = <<>>
    /\ api_answer = ""

\* the wizard is at its first question and generate_ad.py is not running
FrontendIdle ==
    /\ received = {}
    /\ chat_step = 0
    /\ user_info = <<>>
    /\ messages = <<>>
    /\ ads_generated = 0

Init ==
    /\ pc = "idle"
    /\ teammate_output = None
    /\ ad_type = ""
    /\ category = ""
    /\ queries = <<>>
    /\ search_results = <<>>
    /\ data_quality = ""
    /\ category_queries = <<>>
    /\ category_results = <<>>
    /\ category_data = <<>>
    /\ scraped_data = None
    /\ calls = <<>>
    /\ arg = None
    /\ ret = None
    /\ environ = Str("key")
    /\ scraper = LinkupScraper(None, environ)
    /\ http_response = None
    /\ MediaIdle
    /\ FrontendIdle

\* lines 21-57: a request arrives; infer category and type, build the batch
Begin ==
    /\ pc \in {"idle", "served"}
    /\ \E t \in TeammateOutputs :
        /\ teammate_output' = t
        /\ category' = infer_category(t.short_description)
        /\ ad_type' = infer_ad_type(t)
        /\ queries' = get_queries(infer_ad_type(t), t.product,
                                  infer_category(t.short_description),
                                  t.key_messages, t.price, t.competitors)
    /\ pc' = IF Len(queries') = 0 THEN "assess" ELSE "primary"
    /\ search_results' = <<>>
    /\ data_quality' = ""
    /\ category_queries' = <<>>
    /\ category_results' = <<>>
    /\ category_data' = <<>>
    /\ scraped_data' = None
    /\ calls' = <<>>
    /\ UNCHANGED <<arg, ret>>
    /\ UNCHANGED service
    /\ UNCHANGED media
    /\ UNCHANGED frontend

\* _execute_searches runs on the primary batch (line 61) or the fallback batch (line 72)
Batch == IF pc = "primary" THEN queries ELSE category_queries
Results == IF pc = "primary" THEN search_results ELSE category_results
\* the entry the loop of _execute_searches is at
Current == Batch[Len(Results) + 1]

TerseCount ==
    Cardinality({i \in 1..Len(search_results) : search_results[i].v = TerseResponse})
    + Cardinality({i \in 1..Len(category_results) : category_results[i].v = TerseResponse})

ClientResponses(query_name) ==
    {FullResponse(query_name)} \cup (IF TerseCount < MaxTerse THEN {TerseResponse} ELSE {})

\* the executor has gone through the whole batch and returns `results`
Returned(results) ==
    IF pc = "primary"
    THEN /\ search_results' = results
         /\ pc' = IF Len(results) = Len(queries) THEN "assess" ELSE "primary"
         /\ UNCHANGED <<category_results, category_data>>
    ELSE /\ category_results' = results
         /\ IF Len(results) = Len(category_queries)
            THEN pc' = "structure" /\ category_data' = process_results(results)
            ELSE pc' = "fallback" /\ UNCHANGED category_data
         /\ UNCHANGED search_results

\* a handler that records the failure and gives up on the rest of the batch
SearchRaises_Aborts ==
    /\ pc \in {"primary", "fallback"}
    /\ calls' = Append(calls, Current)
    /\ IF pc = "primary"
       THEN /\ search_results' = DictSet(search_results, Current.k, None)
            /\ pc' = "assess"
            /\ UNCHANGED <<category_results, category_data>>
       ELSE /\ category_results' = DictSet(category_results, Current.k, None)
            /\ pc' = "structure"
            /\ category_data' = process_results(category_results')
            /\ UNCHANGED search_results
    /\ UNCHANGED <<teammate_output, ad_type, category, queries, category_queries,
                   data_quality, scraped_data, arg, ret>>
    /\ UNCHANGED service
    /\ UNCHANGED media
    /\ UNCHANGED frontend

\* a handler that sends the failed query again
SearchRaises_Retries ==
    /\ pc \in {"primary", "fallback"}
    /\ Len(calls) < Len(queries) + Len(category_queries) + 1
    /\ calls' = Append(calls, Current)
    /\ UNCHANGED <<pc, teammate_output, ad_type, category, queries, search_results,
                   category_queries, category_results, category_data,
                   data_quality, scraped_data, arg, ret>>
    /\ UNCHANGED service
    /\ UNCHANGED media
    /\ UNCHANGED frontend

\* lines 119-129: the search call of the current query returns a response
SearchReturns ==
    /\ pc \in {"primary", "fallback"}
    /\ calls' = Append(calls, Current)
    /\ \E response \in ClientResponses(Current.k) :
          Returned(DictSet(Results, Current.k, response))
    /\ UNCHANGED <<teammate_output, ad_type, category, queries, category_queries,
                   data_quality, scraped_data, arg, ret>>
    /\ UNCHANGED service
    /\ UNCHANGED media
    /\ UNCHANGED frontend

\* lines 119-127, 131-133: the search call of the current query raises
SearchRaises ==
    /\ pc \in {"primary", "fallback"}
    /\ calls' = Append(calls, Current)
    /\ Returned(DictSet(Results, Current.k, None))
    /\ UNCHANGED <<teammate_output, ad_type, category, queries, category_queries,
                   data_quality, scraped_data, arg, ret>>
    /\ UNCHANGED service
    /\ UNCHANGED media
    /\ UNCHANGED frontend

\* a grading that does not wait for the end of the primary batch
Assess_Eager ==
    /\ pc \in {"assess", "primary"}
    /\ data_quality' = assess_quality(search_results)
    /\ IF NeedsFallback(data_quality')
       THEN /\ category_queries' = get_category_queries(category)
            /\ pc' = "fallback"
       ELSE /\ UNCHANGED category_queries
            /\ pc' = "structure"
    /\ UNCHANGED <<teammate_output, ad_type, category, queries, search_results,
                   category_results, category_data, scraped_data, calls, arg, ret>>
    /\ UNCHANGED service
    /\ UNCHANGED media
    /\ UNCHANGED frontend

\* lines 63-71: grade the primary results; build the fallback batch if needed
Assess ==
    /\ pc = "assess"
    /\ data_quality' = assess_quality(search_results)
    /\ IF NeedsFallback(data_quality')
       THEN /\ category_queries' = get_category_queries(category)
            /\ pc' = "fallback"
       ELSE /\ UNCHANGED category_queries
            /\ pc' = "structure"
    /\ UNCHANGED <<teammate_output, ad_type, category, queries, search_results,
                   category_results, category_data, scraped_data, calls, arg, ret>>
    /\ UNCHANGED service
    /\ UNCHANGED media
    /\ UNCHANGED frontend

\* a structuring step that grades again, with the fallback results counted
Structure_Regrades ==
    /\ pc = "structure"
    /\ \E now \in Timestamps :
          scraped_data' = structure_by_type(ad_type, search_results, category_data,
                                            assess_quality(search_results \o category_results),
                                            teammate_output.product,
                                            teammate_output.price,
                                            teammate_output.competitors, now)
    /\ pc' = "done"
    /\ UNCHANGED <<teammate_output, ad_type, category, queries, search_results,
                   data_quality, category_queries, category_results, category_data,
                   calls, arg, ret>>
    /\ UNCHANGED service
    /\ UNCHANGED media
    /\ UNCHANGED frontend

\* lines 75-87: structure the output and return it
Structure ==
    /\ pc = "structure"
    /\ \E now \in Timestamps :
          scraped_data' = structure_by_type(ad_type, search_results, category_data,
                                            data_quality, teammate_output.product,
                                            teammate_output.price,
                                            teammate_output.competitors, now)
    /\ pc' = "done"
    /\ UNCHANGED <<teammate_output, ad_type, category, queries, search_results,
                   data_quality, category_queries, category_results, category_data,
                   calls, arg, ret>>
    /\ UNCHANGED service
    /\ UNCHANGED media
    /\ UNCHANGED frontend

\* a return that leaves the category insights of the request on the scraper
Finish_KeepsInsights ==
    /\ pc = "done"
    /\ pc' = "served"
    /\ teammate_output' = None
    /\ ad_type' = ""
    /\ category' = ""
    /\ queries' = <<>>
    /\ search_results' = <<>>
    /\ data_quality' = ""
    /\ category_queries' = <<>>
    /\ category_results' = <<>>
    /\ scraped_data' = None
    /\ calls' = <<>>
    /\ UNCHANGED <<arg, ret, category_data>>
    /\ UNCHANGED service
    /\ UNCHANGED media
    /\ UNCHANGED frontend

\* line 87: scrape_for_ad has returned; its locals are gone and the scraper is
\* ready for the next request
Finish ==
    /\ pc = "done"
    /\ pc' = "served"
    /\ teammate_output' = None
    /\ ad_type' = ""
    /\ category' = ""
    /\ queries' = <<>>
    /\ search_results' = <<>>
    /\ data_quality' = ""
    /\ category_queries' = <<>>
    /\ category_results' = <<>>
    /\ category_data' = <<>>
    /\ scraped_data' = None
    /\ calls' = <<>>
    /\ UNCHANGED <<arg, ret>>
    /\ UNCHANGED service
    /\ UNCHANGED media
    /\ UNCHANGED frontend

Next == Begin \/ SearchReturns \/ SearchRaises \/ Assess \/ Structure \/ Finish

Spec == Init /\ [][Next]_vars

---------------------------------------------------------------------------
(* get_queries applied on its own to every combination of arguments *)

InitQueries ==
    /\ pc = "get_queries"
    /\ arg \in QueryArgs
    /\ ret = None
    /\ teammate_output = None
    /\ ad_type = ""
    /\ category = ""
    /\ queries = <<>>
    /\ search_results = <<>>
    /\ data_quality = ""
    /\ category_queries = <<>>
    /\ category_results = <<>>
    /\ category_data = <<>>
    /\ scraped_data = None
    /\ calls = <<>>
    /\ environ = Str("key")
    /\ scraper = LinkupScraper(None, environ)
    /\ http_response = None
    /\ MediaIdle
    /\ FrontendIdle

CallGetQueries ==
    /\ pc = "get_queries"
    /\ ret' = get_queries(arg.ad_type, arg.subject, arg.category,
                          arg.key_messages, arg.our_price, arg.competitors)
    /\ pc' = "returned"
    /\ UNCHANGED <<teammate_output, ad_type, category, queries, search_results,
                   data_quality, category_queries, category_results, category_data,
                   scraped_data, calls, arg>>
    /\ UNCHANGED service
    /\ UNCHANGED media
    /\ UNCHANGED frontend

SpecQueries == InitQueries /\ [][CallGetQueries]_vars

---------------------------------------------------------------------------
(* _assess_quality applied on its own to every result mapping up to MaxTotal *)

\* a mapping with n results whose non-failed ones are those at the positions in ok
ResultMapping(n, ok) ==
    [i \in 1..n |-> KV("q" \o ToString(i), IF i \in ok THEN TerseResponse ELSE None)]

InitAssess ==
    /\ pc = "assess_quality"
    /\ \E n \in 0..MaxTotal : \E ok \in SUBSET (1..n) : arg = ResultMapping(n, ok)
    /\ ret = None
    /\ teammate_output = None
    /\ ad_type = ""
    /\ category = ""
    /\ queries = <<>>
    /\ search_results = <<>>
    /\ data_quality = ""
    /\ category_queries = <<>>
    /\ category_results = <<>>
    /\ category_data = <<>>
    /\ scraped_data = None
    /\ calls = <<>>
    /\ environ = Str("key")
    /\ scraper = LinkupScraper(None, environ)
    /\ http_response = None
    /\ MediaIdle
    /\ FrontendIdle

CallAssessQuality ==
    /\ pc = "assess_quality"
    /\ ret' = Str(assess_quality(arg))
    /\ pc' = "returned"
    /\ UNCHANGED <<teammate_output, ad_type, category, queries, search_results,
                   data_quality, category_queries, category_results, category_data,
                   scraped_data, calls, arg>>
    /\ UNCHANGED service
    /\ UNCHANGED media
    /\ UNCHANGED frontend

SpecAssess == InitAssess /\ [][CallAssessQuality]_vars

---------------------------------------------------------------------------
(* the line extraction of the structurers applied on its own *)

MaxLines == 2         \* freely chosen lines of an answer handed to the extraction

\* lines around the length the filter tests: bare, bulleted or indented, with or
\* without trailing blanks
LinePrefixes == {<<>>, <<"-", " ">>, <<BULLET, " ">>, <<" ">>}
LineSuffixes == {<<>>, <<" ">>}
LineBodies == {Rep("w", n) : n \in (MinLineLen - 1)..(MinLineLen + 1)}
AnswerLines == {p \o b \o s : p \in LinePrefixes, b \in LineBodies, s \in LineSuffixes}
\* what follows the chosen lines: nothing, or enough long lines to pass every cap
AnswerTails == {<<>>, Split(FullAnswer("market_gaps"))}
AnswerTexts ==
    {Join(ls \o tail) : ls \in UNION {[1..n -> AnswerLines] : n \in 0..MaxLines},
                        tail \in AnswerTails}
\* the caps of the slices that follow an extraction ([:3], [:5])
ExtractCaps == {3, 5}

InitExtract ==
    /\ pc = "extract"
    /\ arg \in [answer : AnswerTexts, cap : ExtractCaps]
    /\ ret = None
    /\ teammate_output = None
    /\ ad_type = ""
    /\ category = ""
    /\ queries = <<>>
    /\ search_results = <<>>
    /\ data_quality = ""
    /\ category_queries = <<>>
    /\ category_results = <<>>
    /\ category_data = <<>>
    /\ scraped_data = None
    /\ calls = <<>>
    /\ environ = Str("key")
    /\ scraper = LinkupScraper(None, environ)
    /\ http_response = None
    /\ MediaIdle
    /\ FrontendIdle

\* lines 233-234 (and 241-242, 250-251, 310, 335, 342, 349): extract, then slice
CallExtract ==
    /\ pc = "extract"
    /\ ret' = [lines |-> Take(ExtractLines(arg.answer), arg.cap)]
    /\ pc' = "returned"
    /\ UNCHANGED <<teammate_output, ad_type, category, queries, search_results,
                   data_quality, category_queries, category_results, category_data,
                   scraped_data, calls, arg>>
    /\ UNCHANGED service
    /\ UNCHANGED media
    /\ UNCHANGED frontend

\* the same extraction and slice applied to the lines it returned, joined by '\n'
CallExtractAgain ==
    /\ pc = "returned"
    /\ ret' = [lines |-> ret.lines,
               again |-> Take(ExtractLines(Join(ret.lines)), arg.cap)]
    /\ pc' = "returned_again"
    /\ UNCHANGED <<teammate_output, ad_type, category, queries, search_results,
                   data_quality, category_queries, category_results, category_data,
                   scraped_data, calls, arg>>
    /\ UNCHANGED service
    /\ UNCHANGED media
    /\ UNCHANGED frontend

NextExtract == CallExtract \/ CallExtractAgain

SpecExtract == InitExtract /\ [][NextExtract]_vars

---------------------------------------------------------------------------
(* _structure_by_type applied on its own to every pattern of results of a batch *)

MaxVaried == 1        \* results of a mapping that are not a full response

\* a response with two lines longer than ten characters and one source
BriefResponse(query_name) ==
    LET c == LetterOf(query_name)
    IN  [answer |-> Join(<<<<"-", " ">> \o Rep(c, 17), Rep(c, 3), Rep(c, 18)>>),
         sources |-> SubSeq(SourcesFor(query_name), 1, 1)]

\* a response whose answer has n characters, on two lines, and two sources
LongResponse(query_name, n) ==
    LET c == LetterOf(query_name)
    IN  [answer |-> Join(<<Rep(c, 12), Rep(c, n - 13)>>),
         sources |-> SubSeq(SourcesFor(query_name), 1, 2)]

\* the kinds of response that are not full; for a job, whose structurer cuts the
\* salary text, also answers of exactly SalaryCut characters and of one more
ResponseKinds(type) ==
    {"terse", "brief"} \cup (IF type = "job" THEN {"cut", "overcut"} ELSE {})
VariedResponse(query_name, kind) ==
    CASE kind = "terse" -> TerseResponse
      [] kind = "brief" -> BriefResponse(query_name)
      [] kind = "cut" -> LongResponse(query_name, SalaryCut)
      [] kind = "overcut" -> LongResponse(query_name, SalaryCut + 1)

\* the result mapping _execute_searches returns for `batch` when the searches at
\* the positions in ok return and the others raise; the responses at the
\* positions in varied are of the given kind, the others full
ResultsOf(batch, ok, varied, kind) ==
    [i \in 1..Len(batch) |->
        KV(batch[i].k,
           IF i \notin ok THEN None
           ELSE IF i \in varied THEN VariedResponse(batch[i].k, kind)
                ELSE FullResponse(batch[i].k))]

InitStructure ==
    /\ pc = "structure_by_type"
    /\ \E type \in {"product", "event", "job"}, our_price \in {None, Str("$50")},
          competitors \in {None} \cup {CompetitorList(n) : n \in 1..MaxCompetitors} :
          LET batch == get_queries(type, "Widget X", "technology",
                                   KeyMessages, our_price, competitors)
          IN  \E ok \in SUBSET (1..Len(batch)) :
              \E varied \in {x \in SUBSET ok : Cardinality(x) <= MaxVaried} :
              \E kind \in ResponseKinds(type) :
                  LET results == ResultsOf(batch, ok, varied, kind)
                  IN  arg = [ad_type |-> type, search_results |-> results,
                             category_data |-> <<>>,
                             data_quality |-> assess_quality(results),
                             subject |-> "Widget X",
                             our_price |-> our_price, competitors |-> competitors]
    /\ ret = None
    /\ teammate_output = None
    /\ ad_type = ""
    /\ category = ""
    /\ queries = <<>>
    /\ search_results = <<>>
    /\ data_quality = ""
    /\ category_queries = <<>>
    /\ category_results = <<>>
    /\ category_data = <<>>
    /\ scraped_data = None
    /\ calls = <<>>
    /\ environ = Str("key")
    /\ scraper = LinkupScraper(None, environ)
    /\ http_response = None
    /\ MediaIdle
    /\ FrontendIdle

CallStructureByType ==
    /\ pc = "structure_by_type"
    /\ \E now \in Timestamps :
          ret' = structure_by_type(arg.ad_type, arg.search_results, arg.category_data,
                                   arg.data_quality, arg.subject, arg.our_price,
                                   arg.competitors, now)
    /\ pc' = "returned"
    /\ UNCHANGED <<teammate_output, ad_type, category, queries, search_results,
                   data_quality, category_queries, category_results, category_data,
                   scraped_data, calls, arg>>
    /\ UNCHANGED service
    /\ UNCHANGED media
    /\ UNCHANGED frontend

SpecStructure == InitStructure /\ [][CallStructureByType]_vars

---------------------------------------------------------------------------
(* Web_scraping/main.py: the service *)

EnvironKeys == {None, Str(""), Str("key")}
NotInitialized == "Scraper not initialized. Check LINKUP_API_KEY in .env"

InitService ==
    /\ pc = "startup"
    /\ environ \in EnvironKeys
    /\ scraper = None
    /\ http_response = None
    /\ teammate_output = None
    /\ ad_type = ""
    /\ category = ""
    /\ queries = <<>>
    /\ search_results = <<>>
    /\ data_quality = ""
    /\ category_queries = <<>>
    /\ category_results = <<>>
    /\ category_data = <<>>
    /\ scraped_data = None
    /\ calls = <<>>
    /\ arg = None
    /\ ret = None
    /\ MediaIdle
    /\ FrontendIdle

\* lines 15-20: the module is loaded; a constructor that raises is caught and
\* leaves scraper = None, and the application goes on to serve
Startup ==
    /\ pc = "startup"
    /\ LET made == LinkupScraper(environ, environ)
       IN  scraper' = IF made = ValueError THEN None ELSE made
    /\ pc' = "serving"
    /\ UNCHANGED <<teammate_output, ad_type, category, queries, search_results,
                   data_quality, category_queries, category_results, category_data,
                   scraped_data, calls, arg, ret, environ, http_response>>
    /\ UNCHANGED media
    /\ UNCHANGED frontend

\* lines 34-63: POST /scrape.  Without a scraper the handler answers 500 at line
\* 50; with one, the call of line 57 returns or raises and line 59 turns what it
\* raises into a 500.
ScrapeRequest ==
    /\ pc = "serving"
    /\ \E team_input \in TeammateOutputs :
        /\ teammate_output' = team_input
        /\ IF ~Truthy(scraper)
           THEN http_response' = [status_code |-> 500, detail |-> NotInitialized]
           ELSE http_response' \in {[status_code |-> 200, detail |-> ""],
                                    [status_code |-> 500, detail |-> "Scraping error"]}
    /\ UNCHANGED <<pc, ad_type, category, queries, search_results,
                   data_quality, category_queries, category_results, category_data,
                   scraped_data, calls, arg, ret, environ, scraper>>
    /\ UNCHANGED media
    /\ UNCHANGED frontend

NextService == Startup \/ ScrapeRequest

SpecService == InitService /\ [][NextService]_vars

---------------------------------------------------------------------------
(* _infer_ad_type applied on its own to every combination of keywords *)

\* the words _infer_ad_type looks for, and one it does not
DescriptionWords ==
    {"hiring", "position", "role", "hackathon", "conference", "event", "smartphone"}

InitInfer ==
    /\ pc = "infer_ad_type"
    /\ arg \in [product : {"Widget X"}, short_description : SUBSET DescriptionWords,
                key_messages : {KeyMessages}, price : {None, Str("$50")},
                competitors : {None, CompetitorList(1)}]
    /\ ret = None
    /\ teammate_output = None
    /\ ad_type = ""
    /\ category = ""
    /\ queries = <<>>
    /\ search_results = <<>>
    /\ data_quality = ""
    /\ category_queries = <<>>
    /\ category_results = <<>>
    /\ category_data = <<>>
    /\ scraped_data = None
    /\ calls = <<>>
    /\ environ = Str("key")
    /\ scraper = LinkupScraper(None, environ)
    /\ http_response = None
    /\ MediaIdle
    /\ FrontendIdle

CallInferAdType ==
    /\ pc = "infer_ad_type"
    /\ ret' = Str(infer_ad_type(arg))
    /\ pc' = "returned"
    /\ UNCHANGED <<teammate_output, ad_type, category, queries, search_results,
                   data_quality, category_queries, category_results, category_data,
                   scraped_data, calls, arg>>
    /\ UNCHANGED service
    /\ UNCHANGED media
    /\ UNCHANGED frontend

SpecInfer == InitInfer /\ [][CallInferAdType]_vars

---------------------------------------------------------------------------
(* src/main.py: generate_image_video, one step per request to the Freepik API *)

\* range(max_attempts), range(15), range(30): the lengths of the polling loops
ImagePolls == 20
BasePolls == 15
VideoPolls == 30

MediaTypes == {"image", "video", "audio"}
FreepikKeys == {None, Str(""), Str("key")}
UpstreamStatuses == {429, 503}
ImageUrl == Str("https://cdn.example/image.png")
VideoUrl == Str("https://cdn.example/video.mp4")

Post(url, image) == [method |-> "POST", url |-> url, image |-> image]
Get(url) == [method |-> "GET", url |-> url, image |-> None]
TextToImageUrl == "/v1/ai/text-to-image/imagen3"
ImageToVideoUrl == "/v1/ai/image-to-video/seedance-pro-1080p"
TaskOf(url) == url \o "/{task_id}"

\* what the API can answer to a request that creates a task
CreateAnswers == {"http_error", "raises", "no_data", "url", "null_url", "no_task_id", "task"}
\* what it can answer to a status request
PollAnswers == {"404", "http_error", "raises", "no_data", "IN_PROGRESS", "FAILED",
                "COMPLETED_url", "COMPLETED_null_url", "COMPLETED_no_url"}

HTTPException(status_code, detail) == [status_code |-> status_code, detail |-> detail]

\* lines 525-527: any Exception, an HTTPException raised inside the try included,
\* is raised again as a 500 whose detail is str(e); str of an HTTPException is
\* "<status_code>: <detail>"
CaughtException(e) == HTTPException(500, ToString(e.status_code) \o ": " \o e.detail)

\* lines 522-524 and 525-527: raise_for_status raises HTTPStatusError, answered
\* with the status of the API; an error of the transport is answered with 500
CaughtRequestError(a, status) ==
    IF a = "http_error"
    THEN HTTPException(status, "Freepik API error: {e.response.text}")
    ELSE HTTPException(500, "ConnectError")

\* lines 364-368, 514-518: media_url is declared str, so a None does not validate and
\* the error is caught at line 525
GenerateMediaResponse(url, message) ==
    IF url = None
    THEN HTTPException(500, "1 validation error for GenerateMediaResponse")
    ELSE [status_code |-> 200, success |-> TRUE, media_url |-> url, message |-> message]

Respond(r) ==
    /\ pc' = "responded"
    /\ http_response' = r

Pipeline ==
    <<teammate_output, ad_type, category, queries, search_results, data_quality,
      category_queries, category_results, category_data, scraped_data, calls,
      ret, environ, scraper, frontend>>

InitMedia ==
    /\ pc = "generate_image_video"
    /\ arg \in [media_type : MediaTypes, freepik_api_key : FreepikKeys]
    /\ http_response = None
    /\ MediaIdle
    /\ teammate_output = None
    /\ ad_type = ""
    /\ category = ""
    /\ queries = <<>>
    /\ search_results = <<>>
    /\ data_quality = ""
    /\ category_queries = <<>>
    /\ category_results = <<>>
    /\ category_data = <<>>
    /\ scraped_data = None
    /\ calls = <<>>
    /\ ret = None
    /\ environ = None
    /\ scraper = None
    /\ FrontendIdle

\* lines 246-249: no key
MediaNoKey ==
    /\ pc = "generate_image_video"
    /\ ~Truthy(arg.freepik_api_key)
    /\ Respond(CaughtException(HTTPException(500, "Freepik API key not configured")))
    /\ UNCHANGED <<arg, Pipeline, media>>

\* lines 519-520: the else of the if on media_type, inside the try
MediaInvalidType ==
    /\ pc = "generate_image_video"
    /\ Truthy(arg.freepik_api_key)
    /\ arg.media_type \notin {"image", "video"}
    /\ Respond(CaughtException(
           HTTPException(400, "Invalid media_type. Must be 'image' or 'video'")))
    /\ UNCHANGED <<arg, Pipeline, media>>

\* lines 256-308, 361-368: the text-to-image request and what follows its answer
MediaImage ==
    /\ pc = "generate_image_video"
    /\ Truthy(arg.freepik_api_key)
    /\ arg.media_type = "image"
    /\ sent' = Append(sent, Post(TextToImageUrl, None))
    /\ attempt' = 0
    /\ \E a \in CreateAnswers, status \in UpstreamStatuses :
        /\ api_answer' = a
        /\ CASE a \in {"http_error", "raises"} ->
                  Respond(CaughtRequestError(a, status)) /\ UNCHANGED media_url
             [] a = "no_data" ->
                  /\ Respond(CaughtException(
                         HTTPException(500, "Invalid response from Freepik API")))
                  /\ UNCHANGED media_url
             [] a = "url" ->
                  /\ media_url' = ImageUrl
                  /\ Respond(GenerateMediaResponse(ImageUrl, "Image generated successfully"))
             [] a = "null_url" ->
                  /\ media_url' = None
                  /\ Respond(GenerateMediaResponse(None, "Image generated successfully"))
             [] a = "no_task_id" ->
                  /\ Respond(CaughtException(
                         HTTPException(500, "Failed to get task ID from Freepik API")))
                  /\ UNCHANGED media_url
             [] a = "task" ->
                  /\ pc' = "image_poll"
                  /\ UNCHANGED <<http_response, media_url>>
    /\ UNCHANGED <<arg, Pipeline, base_image_url>>

\* the for loops of lines 314-360 and 475-512, one iteration: the status request and what
\* follows its answer; attempt counts the iterations made.  The else of the for
\* runs when the last iteration ends without break.
Poll(polls, url, found, message, not_found, failed, timeout) ==
    /\ attempt < polls
    /\ sent' = Append(sent, Get(TaskOf(url)))
    /\ attempt' = attempt + 1
    /\ \E a \in PollAnswers, status \in UpstreamStatuses :
        /\ api_answer' = a
        /\ CASE a \in {"http_error", "raises"} ->
                  Respond(CaughtRequestError(a, status)) /\ UNCHANGED media_url
             [] a \in {"404", "no_data", "IN_PROGRESS"} ->
                  /\ IF attempt + 1 = polls
                     THEN Respond(CaughtException(HTTPException(500, timeout)))
                     ELSE UNCHANGED <<pc, http_response>>
                  /\ UNCHANGED media_url
             [] a = "COMPLETED_url" ->
                  /\ media_url' = found
                  /\ Respond(GenerateMediaResponse(found, message))
             [] a = "COMPLETED_null_url" ->
                  /\ media_url' = None
                  /\ Respond(GenerateMediaResponse(None, message))
             [] a = "COMPLETED_no_url" ->
                  /\ Respond(CaughtException(HTTPException(500, not_found)))
                  /\ UNCHANGED media_url
             [] a = "FAILED" ->
                  /\ Respond(CaughtException(HTTPException(500, failed)))
                  /\ UNCHANGED media_url
    /\ UNCHANGED <<arg, Pipeline, base_image_url>>

\* a 404 that goes round again without using up an attempt
MediaImagePoll_FreeRetry ==
    /\ pc = "image_poll"
    /\ \/ Poll(ImagePolls, TextToImageUrl, ImageUrl,
               "Image generated successfully", "Image URL not found in completed task",
               "Image generation failed", "Image generation timeout")
       \/ /\ attempt < ImagePolls
          /\ sent' = Append(sent, Get(TaskOf(TextToImageUrl)))
          /\ api_answer' = "404"
          /\ UNCHANGED <<pc, arg, Pipeline, http_response, attempt, media_url,
                         base_image_url>>

\* lines 314-360
MediaImagePoll ==
    /\ pc = "image_poll"
    /\ Poll(ImagePolls, TextToImageUrl, ImageUrl,
            "Image generated successfully", "Image URL not found in completed task",
            "Image generation failed", "Image generation timeout")

\* lines 370-415, 442-443: the request for the base image of a video
MediaVideoBase ==
    /\ pc = "generate_image_video"
    /\ Truthy(arg.freepik_api_key)
    /\ arg.media_type = "video"
    /\ sent' = Append(sent, Post(TextToImageUrl, None))
    /\ attempt' = 0
    /\ \E a \in CreateAnswers, status \in UpstreamStatuses :
        /\ api_answer' = a
        /\ CASE a \in {"http_error", "raises"} ->
                  Respond(CaughtRequestError(a, status)) /\ UNCHANGED base_image_url
             [] a = "no_data" ->
                  /\ Respond(CaughtException(
                         HTTPException(500, "Invalid response for base image generation")))
                  /\ UNCHANGED base_image_url
             [] a = "url" ->
                  /\ base_image_url' = ImageUrl
                  /\ pc' = "image_to_video"
                  /\ UNCHANGED http_response
             \* line 407: generated.get("url") of an entry without a url
             [] a = "null_url" ->
                  /\ base_image_url' = None
                  /\ pc' = "image_to_video"
                  /\ UNCHANGED http_response
             [] a = "no_task_id" ->
                  /\ Respond(CaughtException(
                         HTTPException(500, "Failed to get task ID for base image")))
                  /\ UNCHANGED base_image_url
             [] a = "task" ->
                  /\ pc' = "base_poll"
                  /\ UNCHANGED <<http_response, base_image_url>>
    /\ UNCHANGED <<arg, Pipeline, media_url>>

\* lines 419-441: only COMPLETED with a non-empty generated ends the loop; FAILED
\* and a COMPLETED without generated go round again
MediaVideoBasePoll ==
    /\ pc = "base_poll"
    /\ attempt < BasePolls
    /\ sent' = Append(sent, Get(TaskOf(TextToImageUrl)))
    /\ attempt' = attempt + 1
    /\ \E a \in PollAnswers, status \in UpstreamStatuses :
        /\ api_answer' = a
        /\ CASE a \in {"http_error", "raises"} ->
                  Respond(CaughtRequestError(a, status)) /\ UNCHANGED base_image_url
             [] a \in {"404", "no_data", "IN_PROGRESS", "FAILED", "COMPLETED_no_url"} ->
                  /\ IF attempt + 1 = BasePolls
                     THEN Respond(CaughtException(
                              HTTPException(500, "Base image generation timeout")))
                     ELSE UNCHANGED <<pc, http_response>>
                  /\ UNCHANGED base_image_url
             [] a = "COMPLETED_url" ->
                  /\ base_image_url' = ImageUrl
                  /\ pc' = "image_to_video"
                  /\ UNCHANGED http_response
             [] a = "COMPLETED_null_url" ->
                  /\ base_image_url' = None
                  /\ pc' = "image_to_video"
                  /\ UNCHANGED http_response
    /\ UNCHANGED <<arg, Pipeline, media_url>>

\* lines 445-471: the image-to-video request, with whatever base_image_url holds
MediaVideo ==
    /\ pc = "image_to_video"
    /\ sent' = Append(sent, Post(ImageToVideoUrl, base_image_url))
    /\ attempt' = 0
    /\ \E a \in CreateAnswers \ {"url", "null_url"}, status \in UpstreamStatuses :
        /\ api_answer' = a
        /\ CASE a \in {"http_error", "raises"} ->
                  Respond(CaughtRequestError(a, status))
             [] a = "no_data" ->
                  Respond(CaughtException(
                      HTTPException(500, "Invalid video generation response")))
             [] a = "no_task_id" ->
                  Respond(CaughtException(
                      HTTPException(500, "Failed to get video task ID")))
             [] a = "task" ->
                  /\ pc' = "video_poll"
                  /\ UNCHANGED http_response
    /\ UNCHANGED <<arg, Pipeline, media_url, base_image_url>>

\* lines 475-518
MediaVideoPoll ==
    /\ pc = "video_poll"
    /\ Poll(VideoPolls, ImageToVideoUrl, VideoUrl,
            "Video generated successfully", "Video URL not found in completed task",
            "Video generation failed", "Video generation timeout (150 seconds)")

NextMedia ==
    \/ MediaNoKey
    \/ MediaInvalidType
    \/ MediaImage
    \/ MediaImagePoll
    \/ MediaVideoBase
    \/ MediaVideoBasePoll
    \/ MediaVideo
    \/ MediaVideoPoll

SpecMedia == InitMedia /\ [][NextMedia]_vars

---------------------------------------------------------------------------
(* generate_ad.py: generate_image, one step per request to the Freepik API *)

\* max_attempts
CliPolls == 15

TasksUrl == "/v1/ai/tasks/{task_id}"

\* what the API can answer to the text-to-image request: an error status, no
\* answer at all, images, an image entry whose url is null, a data that is not
\* an object, a task, or a body without data
CliCreateAnswers ==
    {"http_error", "raises", "images", "images_null_url", "malformed", "task", "no_data"}

\* what it can answer to a status request: the HTTP status and the body.  The
\* status is not looked at (no raise_for_status at line 76), the body is; an
\* error status comes with a body that is not JSON or with a JSON body that
\* carries no task status.  Status 0 stands for no answer at all.
CliPollBodies ==
    {"not_json", "no_status", "IN_PROGRESS", "FAILED", "COMPLETED_url", "COMPLETED_no_images"}
CliPollAnswers ==
    {<<0, "raises">>}
        \cup ({200} \X CliPollBodies)
        \cup (UpstreamStatuses \X {"not_json", "no_status"})

Return(value) ==
    /\ pc' = "returned"
    /\ ret' = value

CliRest ==
    <<teammate_output, ad_type, category, queries, search_results, data_quality,
      category_queries, category_results, category_data, scraped_data, calls,
      service, media_url, base_image_url, chat_step, user_info, messages,
      ads_generated>>

InitCli ==
    /\ pc = "generate_image"
    /\ arg \in [FREEPIK_API_KEY : FreepikKeys, aspect_ratio : {"widescreen_16_9"}]
    /\ ret = None
    /\ MediaIdle
    /\ FrontendIdle
    /\ http_response = None
    /\ teammate_output = None
    /\ ad_type = ""
    /\ category = ""
    /\ queries = <<>>
    /\ search_results = <<>>
    /\ data_quality = ""
    /\ category_queries = <<>>
    /\ category_results = <<>>
    /\ category_data = <<>>
    /\ scraped_data = None
    /\ calls = <<>>
    /\ environ = None
    /\ scraper = None

\* lines 22-25
CliNoKey ==
    /\ pc = "generate_image"
    /\ ~Truthy(arg.FREEPIK_API_KEY)
    /\ Return(None)
    /\ UNCHANGED <<arg, CliRest, attempt, sent, api_answer, received>>

\* lines 52-68, 94-100: the text-to-image request and what follows its answer
CliImage ==
    /\ pc = "generate_image"
    /\ Truthy(arg.FREEPIK_API_KEY)
    /\ sent' = Append(sent, Post(TextToImageUrl, None))
    /\ attempt' = 0
    /\ \E a \in CliCreateAnswers, status \in UpstreamStatuses :
        /\ api_answer' = a
        /\ received' = IF a = "raises" THEN received
                       ELSE IF a = "http_error" THEN received \cup {status}
                       ELSE received \cup {200}
        /\ CASE a \in {"http_error", "raises", "malformed"} -> Return(None)
             [] a = "images" -> Return(ImageUrl)
             [] a = "images_null_url" -> Return(None)
             [] a \in {"task", "no_data"} -> pc' = "status" /\ UNCHANGED ret
    /\ UNCHANGED <<arg, CliRest>>

\* one iteration of the loop of lines 72-89 and, after the last, lines 91-92
CliPollStep(terminal) ==
    /\ attempt < CliPolls
    /\ sent' = Append(sent, Get(TasksUrl))
    /\ attempt' = attempt + 1
    /\ \E a \in CliPollAnswers :
        /\ api_answer' = a[2]
        /\ received' = IF a[1] = 0 THEN received ELSE received \cup {a[1]}
        /\ CASE a[2] \in {"raises", "not_json"} -> Return(None)
             [] a[2] = "COMPLETED_url" -> Return(ImageUrl)
             \* line 83 raises KeyError, caught at line 98
             [] a[2] = "COMPLETED_no_images" -> Return(None)
             [] a[2] \in terminal -> Return(None)
             [] OTHER ->
                  IF attempt + 1 = CliPolls
                  THEN Return(None)
                  ELSE UNCHANGED <<pc, ret>>
    /\ UNCHANGED <<arg, CliRest>>

\* a FAILED status that is polled again
CliImagePoll_IgnoresFailed ==
    /\ pc = "status"
    /\ CliPollStep({})

\* lines 70-92, 94-100
CliImagePoll ==
    /\ pc = "status"
    /\ CliPollStep({"FAILED"})

NextCli ==
    \/ CliNoKey
    \/ CliImage
    \/ CliImagePoll

SpecCli == InitCli /\ [][NextCli]_vars

---------------------------------------------------------------------------
(* src/app.py: the chatbot wizard, one step per button pressed *)

UpperCase == <<"A", "B", "C", "D", "E", "F", "G", "H", "I", "J", "K", "L", "M",
               "N", "O", "P", "Q", "R", "S", "T", "U", "V", "W", "X", "Y", "Z">>
LowerCase == <<"a", "b", "c", "d", "e", "f", "g", "h", "i", "j", "k", "l", "m",
               "n", "o", "p", "q", "r", "s", "t", "u", "v", "w", "x", "y", "z">>

\* str.lower()
Lower(s) ==
    [i \in 1..Len(s) |->
        IF \E j \in 1..26 : UpperCase[j] = s[i]
        THEN LowerCase[CHOOSE j \in 1..26 : UpperCase[j] = s[i]]
        ELSE s[i]]

\* term in text
Contains(text, term) ==
    \E i \in 1..(Len(text) - Len(term) + 1) : SubSeq(text, i, i + Len(term) - 1) = term

\* len(text.split()): the runs of characters that are not whitespace
WordCount(text) ==
    Cardinality({i \in 1..Len(text) :
        text[i] \notin Whitespace /\ (i = 1 \/ text[i - 1] \in Whitespace)})

\* lines 107-110
vague_terms ==
    <<
      <<"s", "o", "m", "e", "t", "h", "i", "n", "g">>,
      <<"t", "h", "i", "n", "g">>,
      <<"s", "t", "u", "f", "f">>,
      <<"p", "r", "o", "d", "u", "c", "t">>,
      <<"s", "e", "r", "v", "i", "c", "e">>,
      <<"i", "t", "e", "m">>,
      <<"t", "h", "i", "s">>,
      <<"t", "h", "a", "t">>,
      <<"i", "t">>,
      <<"g", "o", "o", "d">>,
      <<"n", "i", "c", "e">>,
      <<"g", "r", "e", "a", "t">>,
      <<"a", "m", "a", "z", "i", "n", "g">>
    >>

\* lines 118-121
generic_phrases ==
    <<
      <<"c", "r", "e", "a", "t", "e", " ", "a", "n", " ", "a", "d">>,
      <<"m", "a", "k", "e", " ", "a", "n", " ", "a", "d">>,
      <<"a", "d", "v", "e", "r", "t", "i", "s", "e", "m", "e", "n", "t">>,
      <<"m", "a", "r", "k", "e", "t", "i", "n", "g">>,
      <<"p", "r", "o", "m", "o", "t", "e">>,
      <<"s", "e", "l", "l">>,
      <<"b", "u", "s", "i", "n", "e", "s", "s">>,
      <<"c", "o", "m", "p", "a", "n", "y">>
    >>

\* what the user can have typed when pressing Send
UserInputs ==
    {
      <<>>,
      <<" ", " ">>,
      <<"W", "i", "d", "g", "e", "t">>,
      <<"O", "r", "g", "a", "n", "i", "c", " ", "C", "o", "f", "f", "e", "e", " ", "B",
      "e", "a", "n", "s">>,
      <<"i", "t", " ", "i", "s", " ", "t", "h", "i", "s", " ", "n", "i", "c", "e", " ",
      "t", "h", "i", "n", "g">>,
      <<"p", "r", "o", "m", "o", "t", "e", " ", "m", "y", " ", "b", "u", "s", "i", "n",
      "e", "s", "s">>,
      <<"s", "e", "l", "l", " ", "o", "r", "g", "a", "n", "i", "c", " ", "c", "o", "f",
      "f", "e", "e", " ", "b", "e", "a", "n", "s", " ", "o", "n", "l", "i", "n", "e">>,
      <<" ", "G", "y", "m", " ", "a", "p", "p", " ">>
    }

ShortDescription == 10
VagueLimit == 2
FewWords == 5

\* lines 98-126, the bool of the pair returned
validate_product_description(typed) ==
    LET text == Lower(Strip(typed, Whitespace))
        vague_count == Cardinality({i \in 1..Len(vague_terms) : Contains(text, vague_terms[i])})
    IN  IF Len(text) < ShortDescription THEN FALSE
        ELSE IF vague_count > VagueLimit THEN FALSE
        ELSE IF (\E i \in 1..Len(generic_phrases) : Contains(text, generic_phrases[i]))
                /\ WordCount(text) < FewWords THEN FALSE
        ELSE TRUE

\* lines 199-235: key, step.get("optional", False), step.get("validation")
steps ==
    <<[key |-> "product_description", optional |-> FALSE, validation |-> Str("product_clear")],
      [key |-> "target_audience", optional |-> FALSE, validation |-> None],
      [key |-> "price_range", optional |-> FALSE, validation |-> None],
      [key |-> "competitor_url", optional |-> TRUE, validation |-> None],
      [key |-> "ad_style", optional |-> FALSE, validation |-> None]>>

\* the ads one session generates
MaxAds == 2

WizardRest ==
    <<teammate_output, ad_type, category, queries, search_results, data_quality,
      category_queries, category_results, category_data, scraped_data, calls,
      arg, ret, service, media, received>>

\* lines 183-196: the session state of a new session
InitWizard ==
    /\ pc = "app"
    /\ FrontendIdle
    /\ MediaIdle
    /\ arg = None
    /\ ret = None
    /\ http_response = None
    /\ teammate_output = None
    /\ ad_type = ""
    /\ category = ""
    /\ queries = <<>>
    /\ search_results = <<>>
    /\ data_quality = ""
    /\ category_queries = <<>>
    /\ category_results = <<>>
    /\ category_data = <<>>
    /\ scraped_data = None
    /\ calls = <<>>
    /\ environ = None
    /\ scraper = None

\* lines 266-272: the answer is taken
Accepted(step, user_input) ==
    /\ Strip(user_input, Whitespace) # <<>> \/ step.optional
    /\ step.validation = Str("product_clear") => validate_product_description(user_input)

\* lines 274-285
Store(step, user_input) ==
    /\ user_info' = DictSet(user_info, step.key, Strip(user_input, Whitespace))
    /\ messages' = Append(messages, [role |-> "user", content |-> user_input])
    /\ chat_step' = chat_step + 1

\* Send that stores the answer whatever the validation says
Send_NoValidation ==
    /\ chat_step < Len(steps)
    /\ \E user_input \in UserInputs :
        LET step == steps[chat_step + 1]
        IN  IF Strip(user_input, Whitespace) # <<>> \/ step.optional
            THEN Store(step, user_input)
            ELSE UNCHANGED <<user_info, messages, chat_step>>
    /\ UNCHANGED <<pc, WizardRest, ads_generated>>

\* lines 240-287: Send is pressed at the current question
Send ==
    /\ chat_step < Len(steps)
    /\ \E user_input \in UserInputs :
        LET step == steps[chat_step + 1]
        IN  IF Accepted(step, user_input)
            THEN Store(step, user_input)
            ELSE UNCHANGED <<user_info, messages, chat_step>>
    /\ UNCHANGED <<pc, WizardRest, ads_generated>>

\* lines 289-450: the button is drawn once every question is answered; without a
\* product description the handler returns at line 317
GenerateCompleteAd ==
    /\ chat_step >= Len(steps)
    /\ ads_generated < MaxAds
    /\ ads_generated' =
           IF DictHas(user_info, "product_description")
              /\ DictGet(user_info, "product_description") # <<>>
           THEN ads_generated + 1
           ELSE ads_generated
    /\ UNCHANGED <<pc, WizardRest, chat_step, user_info, messages>>

\* lines 452-458: drawn next to Generate Complete Ad
NewConversation ==
    /\ chat_step >= Len(steps)
    /\ messages' = <<>>
    /\ user_info' = <<>>
    /\ chat_step' = 0
    /\ UNCHANGED <<pc, WizardRest, ads_generated>>

\* lines 464, 526-532: drawn in the preview once the session holds an ad_copy,
\* which the first generation stores
NewAd ==
    /\ ads_generated > 0
    /\ messages' = <<>>
    /\ user_info' = <<>>
    /\ chat_step' = 0
    /\ UNCHANGED <<pc, WizardRest, ads_generated>>

NextWizard ==
    \/ Send
    \/ GenerateCompleteAd
    \/ NewConversation
    \/ NewAd

SpecWizard == InitWizard /\ [][NextWizard]_vars

---------------------------------------------------------------------------
(* Properties *)

Range(seq) == {seq[i] : i \in 1..Len(seq)}
Failed(results) == {results[i].k : i \in {j \in 1..Len(results) : results[j].v = None}}
Succeeded(results) == DictKeySet(results) \ Failed(results)
FallbackIds == {"category_overview", "customer_needs"}
CalledIds == {calls[i].k : i \in 1..Len(calls)}
CompetitorCount(competitors) == IF competitors = None THEN 0 ELSE Len(competitors.items)

\* C1: the tier _assess_quality returns depends only on the number of non-failed
\* results and the number of results: MINIMAL for the empty mapping, else
\* SUFFICIENT when successful/total >= 7/10, PARTIAL when 3/10 <= successful/total
\* < 7/10, MINIMAL below 3/10.
C1_TierByRate ==
    pc = "returned" =>
        LET total == Len(arg)
            successful == total - Cardinality(Failed(arg))
        IN  /\ total = 0 => ret = Str("MINIMAL")
            /\ total > 0 /\ 10 * successful >= 7 * total => ret = Str("SUFFICIENT")
            /\ total > 0 /\ 10 * successful >= 3 * total /\ 10 * successful < 7 * total
                  => ret = Str("PARTIAL")
            /\ total > 0 /\ 10 * successful < 3 * total => ret = Str("MINIMAL")

\* the boundary 7/10 has been graded, and fell in the higher tier
C1_Witness ==
    /\ pc = "returned"
    /\ Len(arg) = 10
    /\ Cardinality(Failed(arg)) = 3
    /\ ret = Str("SUFFICIENT")

\* C2: a fallback query is sent only after the primary batch was graded PARTIAL
\* or MINIMAL; once the fallback step is over both fallback queries have been
\* sent exactly when the tier is PARTIAL or MINIMAL; with SUFFICIENT none is ever
\* sent and category_insights of the output is empty.
C2_FallbackIffNotSufficient ==
    /\ CalledIds \cap FallbackIds # {} =>
          /\ pc \in {"fallback", "structure", "done"}
          /\ data_quality \in {"PARTIAL", "MINIMAL"}
    /\ pc \in {"structure", "done"} =>
          /\ data_quality \in {"SUFFICIENT", "PARTIAL", "MINIMAL"}
          /\ (FallbackIds \subseteq CalledIds) <=> (data_quality \in {"PARTIAL", "MINIMAL"})
    /\ pc = "done" /\ data_quality = "SUFFICIENT" =>
          /\ CalledIds \cap FallbackIds = {}
          /\ scraped_data.category_insights = <<>>

\* a request graded PARTIAL has ended with both fallback queries sent
C2_Witness ==
    /\ pc = "done"
    /\ data_quality = "PARTIAL"
    /\ FallbackIds \subseteq CalledIds
    /\ scraped_data.category_insights # <<>>

\* C3: whatever calls raise, _execute_searches goes through the whole batch: the
\* mapping it returns has exactly the ids of the batch, in order, each with a
\* response or the failed marker; while it runs it has one result for each query
\* it has been through.
C3_FailureIsolated ==
    /\ pc \in {"assess", "fallback", "structure", "done"} =>
          DictKeys(search_results) = DictKeys(queries)
    /\ pc \in {"structure", "done"} =>
          DictKeys(category_results) = DictKeys(category_queries)
    /\ pc = "primary" =>
          /\ Len(search_results) < Len(queries)
          /\ DictKeys(search_results) = SubSeq(DictKeys(queries), 1, Len(search_results))
    /\ pc = "fallback" =>
          /\ Len(category_results) < Len(category_queries)
          /\ DictKeys(category_results)
                = SubSeq(DictKeys(category_queries), 1, Len(category_results))
    /\ \A e \in Range(search_results) \cup Range(category_results) :
          e.v = None \/ DOMAIN e.v = {"answer", "sources"}

\* the executor has returned a batch in which a call raised and a later one succeeded
C3_Witness ==
    /\ pc = "assess"
    /\ \E i, j \in 1..Len(search_results) :
          i < j /\ search_results[i].v = None /\ search_results[j].v # None

\* C4: at most two competitors are queried per request.  In the batch of a
\* product request the only per-competitor ids are those of indices 1 and 2,
\* each naming the competitor at that place of the list; no query text, the
\* pricing query included, names a competitor beyond the first two; and
\* competitor_analysis of the output has no entry but competitor_1, competitor_2.
ProductIds ==
    {CompetitorKey(i, sfx) : i \in 1..2, sfx \in {"overview", "weaknesses", "vs_us"}}
    \cup {"identify_competitors", "market_pain_points", "market_gaps",
          "pricing_comparison", "pricing_landscape", "validate_claims"}

C4_AtMostTwoCompetitors ==
    pc # "idle" /\ ad_type = "product" =>
        LET competitors == teammate_output.competitors
            n == CompetitorCount(competitors)
        IN  /\ DictKeySet(queries) \subseteq ProductIds
            /\ \A i \in 1..2, sfx \in {"overview", "weaknesses", "vs_us"} :
                  /\ DictHas(queries, CompetitorKey(i, sfx)) <=> i <= n
                  /\ i <= n =>
                        DictGet(queries, CompetitorKey(i, sfx)).names = <<competitors.items[i]>>
            /\ \A e \in Range(queries) \cup Range(calls) :
                  Range(e.v.names) \subseteq {competitors.items[i] : i \in 1..Min(n, 2)}
            /\ DictHas(queries, "pricing_comparison") =>
                  DictGet(queries, "pricing_comparison").names
                     = SubSeq(competitors.items, 1, Min(n, 2))
            /\ pc = "done" =>
                  DictKeys(scraped_data.competitor_analysis)
                     = SubSeq(<<"competitor_1", "competitor_2">>, 1, Min(n, 2))

\* a product request with three competitors and a price has been answered
C4_Witness ==
    /\ pc = "done"
    /\ ad_type = "product"
    /\ CompetitorCount(teammate_output.competitors) = 3
    /\ DictHas(queries, "pricing_comparison")
    /\ Len(scraped_data.competitor_analysis) = 2

\* C5: no retry.  At every moment of a request the calls made so far are the
\* queries the executor has been through, each once and in batch order: first
\* those of the primary batch, then those of the fallback batch; so at the end
\* every query of both batches has been sent exactly once, failed or not.
C5_NoRetry ==
    /\ calls = SubSeq(queries, 1, Len(search_results))
               \o SubSeq(category_queries, 1, Len(category_results))
    /\ \A i, j \in 1..Len(calls) : calls[i].k = calls[j].k => i = j
    /\ pc \in {"structure", "done"} => calls = queries \o category_queries

\* a request has ended with failed queries in both batches
C5_Witness ==
    /\ pc = "done"
    /\ Failed(search_results) # {}
    /\ Failed(category_results) # {}
    /\ Succeeded(search_results) # {}

\* C6: the ids of a product batch are determined by three flags: the number of
\* competitors, whether a price is set, whether key messages are set.
ExpectedProductIds(n, has_price, has_messages) ==
    (IF n >= 1
     THEN {CompetitorKey(i, sfx) : i \in 1..Min(n, 2), sfx \in {"overview", "weaknesses", "vs_us"}}
     ELSE {"identify_competitors", "market_pain_points"})
    \cup {"market_gaps"}
    \cup (IF has_price
          THEN (IF n >= 1 THEN {"pricing_comparison"} ELSE {"pricing_landscape"})
          ELSE {})
    \cup (IF has_messages THEN {"validate_claims"} ELSE {})

C6_ProductBatchByFlags ==
    pc = "returned" /\ arg.ad_type = "product" =>
        LET n == CompetitorCount(arg.competitors)
            has_price == arg.our_price # None /\ arg.our_price # Str("")
            has_messages == arg.key_messages # None /\ arg.key_messages # List(<<>>)
            expected == ExpectedProductIds(n, has_price, has_messages)
        IN  /\ DictKeySet(ret) = expected
            /\ Len(ret) = Cardinality(expected)
            /\ n >= 2 => Cardinality(expected \cap {CompetitorKey(i, sfx) :
                             i \in 1..2, sfx \in {"overview", "weaknesses", "vs_us"}}) = 6

\* the batch for two competitors, a price and key messages has been built
C6_Witness ==
    /\ pc = "returned"
    /\ arg.ad_type = "product"
    /\ CompetitorCount(arg.competitors) = 2
    /\ arg.our_price = Str("$50")
    /\ arg.key_messages = KeyMessages
    /\ Len(ret) = 9

\* C7: the batch of an event is always the same five ids and that of a job the
\* same six, and no competitor, price or key message enters any of their texts.
EventIds ==
    <<"event_success_history", "attendee_testimonials", "event_highlights",
      "organizer_credibility", "networking_value">>
JobIds ==
    <<"company_culture", "work_life_balance", "compensation_benefits",
      "career_growth", "employee_satisfaction", "company_stability">>

C7_EventAndJobBatchesFixed ==
    pc = "returned" /\ arg.ad_type \in {"event", "job"} =>
        /\ arg.ad_type = "event" => DictKeys(ret) = EventIds
        /\ arg.ad_type = "job" => DictKeys(ret) = JobIds
        /\ \A e \in Range(ret) :
              /\ e.v.names = <<>>
              /\ e.v.msgs = <<>>
              /\ e.v.price = ""
              /\ e.v.subject = arg.subject

\* an event batch has been built for a subject with three competitors, a price
\* and key messages
C7_Witness ==
    /\ pc = "returned"
    /\ arg.ad_type = "event"
    /\ CompetitorCount(arg.competitors) = 3
    /\ arg.our_price = Str("$50")
    /\ arg.key_messages = KeyMessages
    /\ Len(ret) = 5

\* Scenario B: a product request with a competitor and a price has been answered
\* and every call of its primary batch raised.
ScenarioB ==
    /\ pc = "done"
    /\ ad_type = "product"
    /\ CompetitorCount(teammate_output.competitors) >= 1
    /\ teammate_output.price = Str("$50")
    /\ Succeeded(search_results) = {}

\* the parts of the scenario B claim that do not concern competitor_analysis and
\* how_to_beat_them
ScenarioBRest ==
    /\ scraped_data.data_quality = "MINIMAL"
    /\ scraped_data.market_gaps = <<>>
    /\ scraped_data.pricing_comparison = <<>>
    /\ scraped_data.event_success_metrics = <<>>
    /\ scraped_data.attendee_testimonials = <<>>
    /\ scraped_data.company_culture = <<>>
    /\ scraped_data.work_life_balance = <<>>
    /\ scraped_data.benefits_info = <<>>
    /\ FallbackIds \subseteq CalledIds
    /\ DictKeySet(scraped_data.category_insights) = Succeeded(category_results)
    /\ \A e \in Range(scraped_data.category_insights) :
          e.v = DictGet(category_results, e.k)
    /\ Succeeded(category_results) = {} => scraped_data.category_insights = <<>>

\* C8 as stated: in scenario B every structured field is empty, competitor_analysis
\* and how_to_beat_them included.
C8_AllFieldsEmpty ==
    ScenarioB =>
        /\ ScenarioBRest
        /\ scraped_data.competitor_analysis = <<>>
        /\ scraped_data.how_to_beat_them = <<>>

\* C8, amended: in scenario B the tier is MINIMAL, the fallback batch is sent,
\* category_insights holds exactly the fallback results that succeeded, and
\* market_gaps, pricing_comparison and the event and job fields are empty;
\* competitor_analysis has one entry per queried competitor with its name and an
\* empty overview, weaknesses and how_we_beat_them; how_to_beat_them has two
\* empty lists and the two placeholder advantages.
C8_EmptyExceptSkeleton ==
    ScenarioB =>
        LET competitors == teammate_output.competitors.items
            analysis == scraped_data.competitor_analysis
            strategy == scraped_data.how_to_beat_them
        IN  /\ ScenarioBRest
            /\ DictKeys(analysis)
                  = SubSeq(<<"competitor_1", "competitor_2">>, 1, Min(Len(competitors), 2))
            /\ \A i \in 1..Len(analysis) :
                  /\ DictKeys(analysis[i].v)
                        = <<"name", "overview", "weaknesses", "how_we_beat_them">>
                  /\ DictGet(analysis[i].v, "name") = competitors[i]
                  /\ DictGet(analysis[i].v, "overview") = <<>>
                  /\ DictGet(analysis[i].v, "weaknesses") = <<>>
                  /\ DictGet(analysis[i].v, "how_we_beat_them") = <<>>
            /\ DictKeys(strategy) = <<"exploit_competitor_weaknesses", "fill_market_gaps",
                                      "competitive_advantages">>
            /\ DictGet(strategy, "exploit_competitor_weaknesses") = <<>>
            /\ DictGet(strategy, "fill_market_gaps") = <<>>
            /\ DictGet(strategy, "competitive_advantages")
                  = <<AddressText \o CompetitorWeaknessText, FillGapText \o UnmetNeedText>>

\* scenario B has happened, with every fallback call raising as well
C8_Witness ==
    /\ ScenarioB
    /\ Len(category_results) = 2
    /\ Succeeded(category_results) = {}

\* C9: scenario A.  When a product request with at least one competitor and a
\* price is answered and every primary call returned an answer, competitor_i of
\* competitor_analysis carries the name of the i-th competitor, for each queried
\* competitor, and pricing_comparison carries the supplied price.
C9_NamesAndPrice ==
    (/\ pc = "done"
     /\ ad_type = "product"
     /\ CompetitorCount(teammate_output.competitors) >= 1
     /\ teammate_output.price = Str("$50")
     /\ Failed(search_results) = {}) =>
        LET competitors == teammate_output.competitors.items
            analysis == scraped_data.competitor_analysis
        IN  /\ \A i \in 1..Min(Len(competitors), 2) :
                  /\ DictHas(analysis, "competitor_" \o ToString(i))
                  /\ DictGet(DictGet(analysis, "competitor_" \o ToString(i)), "name")
                        = competitors[i]
            /\ DictGet(DictGet(analysis, "competitor_1"), "name") = "Acme Pro"
            /\ DictHas(scraped_data.pricing_comparison, "our_price")
            /\ DictGet(scraped_data.pricing_comparison, "our_price") = "$50"

\* scenario A has happened for two competitors
C9_Witness ==
    /\ pc = "done"
    /\ ad_type = "product"
    /\ CompetitorCount(teammate_output.competitors) = 2
    /\ teammate_output.price = Str("$50")
    /\ Failed(search_results) = {}
    /\ Len(search_results) >= 8

\* Scenario C: an event request has been answered and all five calls succeeded.
ScenarioC ==
    /\ pc = "done"
    /\ ad_type = "event"
    /\ Len(search_results) = 5
    /\ Failed(search_results) = {}

ScenarioCRest ==
    /\ scraped_data.event_success_metrics # <<>>
    /\ scraped_data.data_quality = "SUFFICIENT"
    /\ scraped_data.competitor_analysis = <<>>
    /\ scraped_data.how_to_beat_them = <<>>
    /\ scraped_data.pricing_comparison = <<>>
    /\ scraped_data.market_gaps = <<>>
    /\ scraped_data.product_details = <<>>

\* C10 as stated: in scenario C attendee_testimonials is populated too.
C10_TestimonialsPopulated ==
    ScenarioC => ScenarioCRest /\ scraped_data.attendee_testimonials # <<>>

\* C10, amended: in scenario C event_success_metrics is populated, the tier is
\* SUFFICIENT and the product-only fields are at their defaults;
\* attendee_testimonials is populated exactly when the testimonial answer has a
\* line of more than 10 characters (surrounding whitespace aside), and then
\* holds at most 5 entries.
C10_TestimonialsFromLongLines ==
    ScenarioC =>
        LET answer == DictGet(search_results, "attendee_testimonials").answer
            long == {i \in 1..Len(Split(answer)) :
                        Len(Strip(Split(answer)[i], Whitespace)) > 10}
        IN  /\ ScenarioCRest
            /\ scraped_data.attendee_testimonials # <<>> <=> long # {}
            /\ Len(scraped_data.attendee_testimonials) = Min(Cardinality(long), 5)

\* scenario C has happened with a testimonial answer that has no long line, for
\* a subject that carries competitors and a price
C10_Witness ==
    /\ ScenarioC
    /\ DictGet(search_results, "attendee_testimonials") = TerseResponse
    /\ CompetitorCount(teammate_output.competitors) >= 1
    /\ teammate_output.price = Str("$50")

\* C11: the extraction keeps a line exactly when its length after removing the
\* bullet markers and the surrounding whitespace is greater than 10 (10 dropped,
\* 11 kept); the kept lines appear stripped, in their order, up to the cap.
TrimmedLine(line) == Strip(Strip(line, BulletChars), Whitespace)
LinesLongAfterTrim(answer) ==
    SelectSeq([i \in 1..Len(Split(answer)) |-> TrimmedLine(Split(answer)[i])],
              LAMBDA line : Len(line) > 10)
C11_KeptByTrimmedLength ==
    pc \in {"returned", "returned_again"} =>
        ret.lines = Take(LinesLongAfterTrim(arg.answer), arg.cap)

\* C12: extracting again from the extracted lines joined by line breaks, with the
\* same cap, returns the same list of lines.
C12_Idempotent ==
    pc = "returned_again" => ret.again = ret.lines

\* the result of query `key` in a mapping, None when the query failed or is absent
ResultOf(results, key) == IF DictHas(results, key) THEN DictGet(results, key) ELSE None
BlockCount(competitors) == Min(2, CompetitorCount(competitors))
\* the weaknesses of block competitor_i of an output, none when there is no such block
BlockWeaknesses(output, i) ==
    IF DictHas(output.competitor_analysis, "competitor_" \o ToString(i))
    THEN DictGet(DictGet(output.competitor_analysis, "competitor_" \o ToString(i)), "weaknesses")
    ELSE <<>>

\* C13: in a product output block competitor_i is built from the results of
\* competitor_i_overview, competitor_i_weaknesses and competitor_i_vs_us only:
\* the overview from the first (answer, first 3 source names and urls), the
\* weaknesses from the lines of the second (at most 5), how_we_beat_them from the
\* lines of the third (at most 3); a part whose query failed is empty and the
\* others are not affected; no other result has a part in the block.
C13_BlockFromOwnQueries ==
    (pc = "returned" /\ arg.ad_type = "product") =>
        LET breakdown == ret.competitor_analysis
            n == BlockCount(arg.competitors)
        IN  /\ DictKeys(breakdown) = [i \in 1..n |-> "competitor_" \o ToString(i)]
            /\ \A i \in 1..n :
                LET block == breakdown[i].v
                    o == ResultOf(arg.search_results, CompetitorKey(i, "overview"))
                    w == ResultOf(arg.search_results, CompetitorKey(i, "weaknesses"))
                    v == ResultOf(arg.search_results, CompetitorKey(i, "vs_us"))
                IN  /\ DictKeys(block) = <<"name", "overview", "weaknesses", "how_we_beat_them">>
                    /\ DictGet(block, "name") = arg.competitors.items[i]
                    /\ DictGet(block, "overview") =
                         IF o = None THEN <<>>
                         ELSE <<KV("description", o.answer),
                                KV("features", [j \in 1..Min(3, Len(o.sources)) |-> o.sources[j].name]),
                                KV("sources", [j \in 1..Min(3, Len(o.sources)) |-> o.sources[j].url])>>
                    /\ DictGet(block, "weaknesses") =
                         IF w = None THEN <<>> ELSE Take(ExtractLines(w.answer), 5)
                    /\ DictGet(block, "how_we_beat_them") =
                         IF v = None THEN <<>> ELSE Take(ExtractLines(v.answer), 3)

\* two competitors; the weaknesses search of the first failed and its other two
\* searches returned, all three searches of the second returned
C13_Witness ==
    /\ pc = "returned" /\ arg.ad_type = "product"
    /\ BlockCount(arg.competitors) = 2
    /\ ResultOf(arg.search_results, "competitor_1_weaknesses") = None
    /\ ResultOf(arg.search_results, "competitor_1_overview") = FullResponse("competitor_1_overview")
    /\ ResultOf(arg.search_results, "competitor_2_weaknesses") = FullResponse("competitor_2_weaknesses")
    /\ BlockWeaknesses(ret, 1) = <<>>
    /\ DictGet(DictGet(ret.competitor_analysis, "competitor_1"), "overview") # <<>>
    /\ Len(DictGet(DictGet(ret.competitor_analysis, "competitor_1"), "how_we_beat_them")) = 3
    /\ Len(BlockWeaknesses(ret, 2)) = 5
    /\ BlockWeaknesses(ret, 2)[1] = Rep(LetterOf("competitor_2_weaknesses"), 11)

\* C14: in a product output exploit_competitor_weaknesses is the first 5 of the
\* weaknesses of competitor_1 followed by those of competitor_2,
\* fill_market_gaps is the first 3 of market_gaps, and competitive_advantages
\* has exactly two strings: 'Address ' with the first aggregated weakness, or
\* 'competitor weakness' when there is none, and 'Fill gap: ' with the first
\* market gap, or 'unmet need' when there is none.
C14_CounterStrategy ==
    (pc = "returned" /\ arg.ad_type = "product") =>
        LET strategy == ret.how_to_beat_them
            aggregated == BlockWeaknesses(ret, 1) \o BlockWeaknesses(ret, 2)
            advantages == DictGet(strategy, "competitive_advantages")
        IN  /\ DictKeys(strategy) = <<"exploit_competitor_weaknesses", "fill_market_gaps",
                                      "competitive_advantages">>
            /\ DictGet(strategy, "exploit_competitor_weaknesses") = Take(aggregated, 5)
            /\ DictGet(strategy, "fill_market_gaps") = Take(ret.market_gaps, 3)
            /\ Len(advantages) = 2
            /\ advantages[1] = AddressText \o (IF Len(aggregated) > 0 THEN aggregated[1]
                                               ELSE CompetitorWeaknessText)
            /\ advantages[2] = FillGapText \o (IF Len(ret.market_gaps) > 0 THEN ret.market_gaps[1]
                                               ELSE UnmetNeedText)

\* the first competitor has two weaknesses and the second five: the list takes
\* two and three; no market gap was found, so the second string is the placeholder
C14_Witness ==
    /\ pc = "returned" /\ arg.ad_type = "product"
    /\ Len(BlockWeaknesses(ret, 1)) = 2
    /\ Len(BlockWeaknesses(ret, 2)) = 5
    /\ LET exploit == DictGet(ret.how_to_beat_them, "exploit_competitor_weaknesses")
       IN  /\ Len(exploit) = 5
           /\ exploit[2] = BlockWeaknesses(ret, 1)[2]
           /\ exploit[3] = BlockWeaknesses(ret, 2)[1]
           /\ exploit[5] = BlockWeaknesses(ret, 2)[3]
    /\ ret.market_gaps = <<>>
    /\ DictGet(ret.how_to_beat_them, "competitive_advantages") =
           <<AddressText \o Rep(LetterOf("competitor_1_weaknesses"), 17),
             FillGapText \o UnmetNeedText>>

\* C15: every output of scrape_for_ad, whatever the subject type and whichever
\* searches failed, carries as data_quality the tier of the primary results alone
\* (the success rate of the primary batch against 0.7 and 0.3, the results of the
\* fallback queries not counted) and a non-empty scraping_timestamp.
C15_TierOfPrimaryAndTimestamp ==
    pc = "done" =>
        LET total == Len(queries)
            successful == Cardinality(Succeeded(search_results))
        IN  /\ scraped_data # None
            /\ ad_type \in {"product", "event", "job"}
            /\ scraped_data.data_quality =
                 IF total = 0 THEN "MINIMAL"
                 ELSE IF 10 * successful >= 7 * total THEN "SUFFICIENT"
                 ELSE IF 10 * successful >= 3 * total THEN "PARTIAL"
                 ELSE "MINIMAL"
            /\ scraped_data.scraping_timestamp # ""

\* an event whose primary batch had one success in five (MINIMAL) and whose two
\* fallback searches both returned: counted together they would make 3 of 7
C15_Witness ==
    /\ pc = "done"
    /\ ad_type = "event"
    /\ Len(queries) = 5
    /\ Cardinality(Succeeded(search_results)) = 1
    /\ Succeeded(category_results) = FallbackIds
    /\ scraped_data.data_quality = "MINIMAL"
    /\ scraped_data.scraping_timestamp \in Timestamps

\* the category_insights of an output holds exactly the fallback queries whose
\* search did not fail, each with its result, and the rest of the output is what
\* the structurer makes of the primary results with no fallback data
C16_InsightsOnly ==
    pc = "done" =>
        LET insights == scraped_data.category_insights
        IN  /\ DictKeySet(insights) = Succeeded(category_results)
            /\ DictKeySet(insights) \subseteq FallbackIds
            /\ \A i \in 1..Len(insights) :
                  insights[i].v = DictGet(category_results, insights[i].k)
            /\ DictKeys(search_results) = DictKeys(queries)
            /\ [scraped_data EXCEPT !.category_insights = <<>>] =
                 structure_by_type(ad_type, search_results, <<>>, scraped_data.data_quality,
                                   teammate_output.product, teammate_output.price,
                                   teammate_output.competitors,
                                   scraped_data.scraping_timestamp)
\* no step from the grading to the return changes the primary result mapping
C16_PrimaryKept ==
    pc \in {"assess", "fallback", "structure"} => search_results' = search_results

\* C16: the fallback step never overwrites primary results.  The
\* category_insights of an output holds exactly the fallback queries whose search
\* did not fail (failed ones are filtered out); the primary result mapping is not
\* changed by the fallback step; and every field of the output other than
\* category_insights is the same whatever the fallback searches returned.
C16_FallbackNeverOverwrites == [](C16_InsightsOnly) /\ [][C16_PrimaryKept]_vars

\* a product whose fallback batch ran with one search failed and one returned
C16_Witness ==
    /\ pc = "done"
    /\ ad_type = "product"
    /\ Failed(category_results) = {"category_overview"}
    /\ DictKeys(scraped_data.category_insights) = <<"customer_needs">>
    /\ scraped_data.category_insights[1].v = FullResponse("customer_needs")
    /\ scraped_data.competitor_analysis # <<>>

\* the searches issued so far are the primary batch and then the fallback batch,
\* in batch order, each one completed (its result recorded) before the next;
\* grading comes after the last primary search, a fallback search after the
\* grading and only for PARTIAL or MINIMAL, the output after every issued search
C17_StepsInOrderState ==
    /\ Len(calls) = Len(search_results) + Len(category_results)
    /\ Len(search_results) <= Len(queries)
    /\ Len(category_results) <= Len(category_queries)
    /\ \A i \in 1..Len(calls) : calls[i] = (queries \o category_queries)[i]
    /\ \A i \in 1..Len(search_results) : search_results[i].k = queries[i].k
    /\ \A i \in 1..Len(category_results) : category_results[i].k = category_queries[i].k
    /\ data_quality # "" => Len(search_results) = Len(queries)
    /\ Len(category_queries) > 0 => data_quality \in {"PARTIAL", "MINIMAL"}
    /\ Len(category_results) > 0 => Len(search_results) = Len(queries)
    /\ scraped_data # None =>
          /\ data_quality # ""
          /\ Len(search_results) = Len(queries)
          /\ Len(category_results) = Len(category_queries)

\* the order of the steps, and one search per step
StepOrder ==
    {<<"idle", "primary">>, <<"idle", "assess">>, <<"primary", "primary">>,
     <<"primary", "assess">>, <<"assess", "fallback">>, <<"assess", "structure">>,
     <<"fallback", "fallback">>, <<"fallback", "structure">>, <<"structure", "done">>,
     <<"done", "served">>, <<"served", "primary">>, <<"served", "assess">>}
C17_StepsInOrderStep ==
    /\ <<pc, pc'>> \in StepOrder
    /\ calls' # calls =>
          \/ pc \in {"primary", "fallback"} /\ Len(calls') = Len(calls) + 1
          \/ pc = "done" /\ calls' = <<>>

\* C17: the steps of one request happen strictly in order, one search at a time:
\* the batch is built, every primary query is executed to success or failure in
\* batch order, the tier is assessed, the fallback queries are executed only if
\* needed, the output is structured; no fallback query is issued before the last
\* primary query has completed and no output exists before every issued search
\* has completed.
C17_StepsInOrder == [](C17_StepsInOrderState) /\ [][C17_StepsInOrderStep]_vars

\* a returned output of a request that ran the primary batch and then both
\* fallback queries
C17_Witness ==
    /\ pc = "done"
    /\ scraped_data # None
    /\ Len(category_queries) = 2
    /\ calls = queries \o category_queries
    /\ Len(search_results) = Len(queries)
    /\ Len(category_results) = 2

\* C18: a missing credential is fatal at construction and not an error of the
\* requests: with no API key in the argument or the environment the constructor
\* fails and leaves no usable scraper, and the service never answers a scrape
\* request with the report of the missing credential (it does not get to serve).
C18_MissingKeyFatalAtStartup ==
    /\ ~Truthy(environ) => LinkupScraper(environ, environ) = ValueError /\ scraper = None
    /\ ~Truthy(environ) => pc # "serving"
    /\ http_response # None => http_response.detail # NotInitialized

\* no query of the mapping whose id contains one of the keywords has a result
NoSource(results, kws) ==
    \A i \in 1..Len(results) :
        (\E kw \in kws : KeywordIn(kw, results[i].k)) => results[i].v = None
BlockPart(output, i, part) ==
    DictGet(DictGet(output.competitor_analysis, "competitor_" \o ToString(i)), part)

\* C19: for every pattern of failed and succeeded searches the structurer returns
\* an output, and each field whose source query failed or is not in the batch (no
\* query id contains the keyword of the field with a result that did not fail)
\* is at its empty default: market_gaps, pricing_comparison, the parts of a
\* competitor block, event_success_metrics, attendee_testimonials,
\* company_culture, work_life_balance, benefits_info.
C19_FailedSourceLeavesDefault ==
    pc = "returned" =>
        LET results == arg.search_results
        IN  /\ ret # None
            /\ DOMAIN ret = DOMAIN ScrapedData
            /\ NoSource(results, {"market_gaps"}) =>
                  /\ ret.market_gaps = <<>>
                  /\ arg.ad_type = "product" =>
                        DictGet(ret.how_to_beat_them, "fill_market_gaps") = <<>>
            /\ NoSource(results, {"pricing"}) => ret.pricing_comparison = <<>>
            /\ NoSource(results, {"success"}) => ret.event_success_metrics = <<>>
            /\ NoSource(results, {"testimonial"}) => ret.attendee_testimonials = <<>>
            /\ NoSource(results, {"culture"}) => ret.company_culture = <<>>
            /\ NoSource(results, {"balance"}) => ret.work_life_balance = <<>>
            /\ NoSource(results, {"benefit", "compensation"}) => ret.benefits_info = <<>>
            /\ \A i \in 1..Len(ret.competitor_analysis) :
                  /\ ResultOf(results, CompetitorKey(i, "overview")) = None =>
                        BlockPart(ret, i, "overview") = <<>>
                  /\ ResultOf(results, CompetitorKey(i, "weaknesses")) = None =>
                        BlockPart(ret, i, "weaknesses") = <<>>
                  /\ ResultOf(results, CompetitorKey(i, "vs_us")) = None =>
                        BlockPart(ret, i, "how_we_beat_them") = <<>>

\* a job whose company_culture search failed while the work_life_balance search
\* returned: the first field is empty, the second is filled
C19_Witness ==
    /\ pc = "returned" /\ arg.ad_type = "job"
    /\ ResultOf(arg.search_results, "company_culture") = None
    /\ ResultOf(arg.search_results, "work_life_balance") = FullResponse("work_life_balance")
    /\ ResultOf(arg.search_results, "compensation_benefits") = None
    /\ ret.company_culture = <<>>
    /\ ret.benefits_info = <<>>
    /\ Len(DictGet(ret.work_life_balance, "feedback")) = 3

\* the length of list `key` of a mapping of the output, 0 when the mapping is empty
ListLen(mapping, key) == IF DictHas(mapping, key) THEN Len(DictGet(mapping, key)) ELSE 0

\* C20: every list of an output is capped, whatever the length of the answers
\* and source lists of the search client: per competitor weaknesses <= 5,
\* how_we_beat_them <= 3, overview features and sources <= 3; market_gaps <= 5;
\* pricing sources <= 3; exploit_competitor_weaknesses <= 5; fill_market_gaps
\* <= 3; event metric sources <= 3; attendee_testimonials <= 5; culture reviews
\* <= 3; work-life feedback <= 3; perks <= 5.
C20_ListsCapped ==
    pc = "returned" =>
        /\ \A i \in 1..Len(ret.competitor_analysis) :
              LET block == ret.competitor_analysis[i].v
              IN  /\ ListLen(block, "weaknesses") <= 5
                  /\ ListLen(block, "how_we_beat_them") <= 3
                  /\ ListLen(DictGet(block, "overview"), "features") <= 3
                  /\ ListLen(DictGet(block, "overview"), "sources") <= 3
        /\ Len(ret.market_gaps) <= 5
        /\ ListLen(ret.pricing_comparison, "sources") <= 3
        /\ ListLen(ret.how_to_beat_them, "exploit_competitor_weaknesses") <= 5
        /\ ListLen(ret.how_to_beat_them, "fill_market_gaps") <= 3
        /\ ListLen(ret.event_success_metrics, "sources") <= 3
        /\ Len(ret.attendee_testimonials) <= 5
        /\ ListLen(ret.company_culture, "reviews") <= 3
        /\ ListLen(ret.work_life_balance, "feedback") <= 3
        /\ ListLen(ret.benefits_info, "perks") <= 5

\* a product whose searches all returned full responses (six long lines, four
\* sources): every list of the output is cut at its cap
C20_Witness ==
    /\ pc = "returned" /\ arg.ad_type = "product"
    /\ \A i \in 1..Len(arg.search_results) :
          /\ arg.search_results[i].v # None
          /\ Len(ExtractLines(AnswerOf(arg.search_results[i].v))) = 6
          /\ Len(SourcesOf(arg.search_results[i].v)) = 4
    /\ Len(ret.competitor_analysis) = 2
    /\ \A i \in 1..2 :
          /\ Len(BlockPart(ret, i, "weaknesses")) = 5
          /\ Len(BlockPart(ret, i, "how_we_beat_them")) = 3
          /\ ListLen(BlockPart(ret, i, "overview"), "features") = 3
          /\ ListLen(BlockPart(ret, i, "overview"), "sources") = 3
    /\ Len(ret.market_gaps) = 5
    /\ ListLen(ret.pricing_comparison, "sources") = 3
    /\ ListLen(ret.how_to_beat_them, "exploit_competitor_weaknesses") = 5
    /\ ListLen(ret.how_to_beat_them, "fill_market_gaps") = 3

\* what a scraper fresh from its constructor holds: the key and nothing of any request
FreshScraper ==
    /\ scraper = LinkupScraper(None, environ)
    /\ teammate_output = None /\ ad_type = "" /\ category = ""
    /\ queries = <<>> /\ search_results = <<>> /\ data_quality = ""
    /\ category_queries = <<>> /\ category_results = <<>> /\ category_data = <<>>
    /\ scraped_data = None /\ calls = <<>>

\* the output of a request is a function of its subject, of the outcomes of its
\* own searches and of the time; the scraper object is the one constructed; once
\* a request has returned, the scraper is as it was before the first request
C21_OwnRequestOnly ==
    /\ scraper = LinkupScraper(None, environ)
    /\ pc \in {"idle", "served"} => FreshScraper
    /\ pc = "done" =>
          LET t == teammate_output
              batch == get_queries(infer_ad_type(t), t.product,
                                   infer_category(t.short_description),
                                   t.key_messages, t.price, t.competitors)
              tier == assess_quality(search_results)
          IN  /\ DictKeys(search_results) = DictKeys(batch)
              /\ calls = batch \o category_queries
              /\ DictKeys(category_results) =
                    IF tier \in {"PARTIAL", "MINIMAL"}
                    THEN DictKeys(get_category_queries(infer_category(t.short_description)))
                    ELSE <<>>
              /\ scraped_data =
                    structure_by_type(infer_ad_type(t), search_results,
                                      SelectSeq(category_results, LAMBDA e : e.v # None),
                                      tier, t.product, t.price, t.competitors,
                                      scraped_data.scraping_timestamp)

\* the return of a request leaves nothing of it behind
C21_ReturnLeavesNothing == pc = "done" => FreshScraper'

\* C21: no state persists between requests.  For any sequence of requests served
\* by one scraper, the output of a request (its timestamp aside) depends only on
\* the subject of that request and on the outcomes of its own search calls, and
\* is the output a fresh scraper gives for that subject and those outcomes.
C21_NoStateBetweenRequests == [](C21_OwnRequestOnly) /\ [][C21_ReturnLeavesNothing]_vars

\* a request has been served and has returned, and the scraper is ready for the next
C21_Witness ==
    /\ pc = "served"
    /\ FreshScraper
    /\ ENABLED Begin

\* C22: for a job subject benefits_info is taken from a query that did not fail
\* and whose id contains 'benefit' or 'compensation'; its salary text is the
\* answer unchanged when the answer has at most 200 characters, otherwise the
\* first 200 characters followed by '...' (never more than 203 characters); its
\* perks are at most 5 extracted lines.
C22_SalaryCutAndPerks ==
    (pc = "returned" /\ arg.ad_type = "job") =>
        LET results == arg.search_results
            from == {i \in 1..Len(results) :
                        /\ \/ KeywordIn("benefit", results[i].k)
                           \/ KeywordIn("compensation", results[i].k)
                        /\ results[i].v # None}
        IN  IF from = {} THEN ret.benefits_info = <<>>
            ELSE LET answer == results[CHOOSE i \in from : \A j \in from : j <= i].v.answer
                     salary == DictGet(ret.benefits_info, "salary")
                     perks == DictGet(ret.benefits_info, "perks")
                 IN  /\ DictKeys(ret.benefits_info) = <<"salary", "perks">>
                     /\ Len(answer) <= 200 => salary = answer
                     /\ Len(answer) > 200 =>
                           /\ SubSeq(salary, 1, 200) = SubSeq(answer, 1, 200)
                           /\ SubSeq(salary, 201, Len(salary)) = <<".", ".", ".">>
                     /\ Len(salary) <= 203
                     /\ Len(perks) <= 5
                     /\ perks = Take(ExtractLines(answer), 5)

\* the compensation answer has 201 characters: the salary text is its first 200
\* and the ellipsis
C22_Witness ==
    /\ pc = "returned" /\ arg.ad_type = "job"
    /\ ResultOf(arg.search_results, "compensation_benefits") # None
    /\ Len(ResultOf(arg.search_results, "compensation_benefits").answer) = 201
    /\ Len(DictGet(ret.benefits_info, "salary")) = 203
    /\ DictGet(ret.benefits_info, "salary")[203] = "."
    /\ DictGet(ret.benefits_info, "salary")[200] = LetterOf("compensation_benefits")
    /\ Len(DictGet(ret.benefits_info, "perks")) = 2

\* C23: the type scrape_for_ad infers from the description is always job, event
\* or product: job when the description has 'hiring', 'position' or 'role',
\* else event when it has 'hackathon', 'conference' or 'event', else product.
\* So the batch built for the inferred type is never the generic single-query
\* batch and _structure_by_type never returns None for it.
C23_TypeIsJobEventOrProduct ==
    pc = "returned" =>
        LET desc == arg.short_description
            type == ret.str
            batch == get_queries(type, arg.product, infer_category(desc),
                                 arg.key_messages, arg.price, arg.competitors)
            output == structure_by_type(type, [i \in 1..Len(batch) |-> KV(batch[i].k, None)],
                                        <<>>, "MINIMAL", arg.product, arg.price,
                                        arg.competitors, "2024-01-01T10:00:00")
        IN  /\ type \in {"job", "event", "product"}
            /\ type = "job" <=> desc \cap {"hiring", "position", "role"} # {}
            /\ type = "event" <=>
                  /\ desc \cap {"hiring", "position", "role"} = {}
                  /\ desc \cap {"hackathon", "conference", "event"} # {}
            /\ "general_info" \notin DictKeySet(batch)
            /\ Len(batch) > 1
            /\ output # None
            /\ DictKeys(output.company_info) =
                  <<CASE type = "job" -> "company_name"
                      [] type = "event" -> "event_name"
                      [] OTHER -> "product_name">>

\* a description with a job word and event words: the type is job
C23_Witness ==
    /\ pc = "returned"
    /\ arg.short_description = {"role", "conference", "event"}
    /\ ret = Str("job")

\* a request is under way
Running == pc \in {"primary", "assess", "fallback", "structure"}
\* the steps a request has before it at most: the searches left in the batch it
\* is in, and the stages after that
StepsLeft ==
    CASE pc = "primary" -> 20 * 4 + (Len(queries) - Len(search_results))
      [] pc = "assess" -> 20 * 3
      [] pc = "fallback" -> 20 * 2 + (Len(category_queries) - Len(category_results))
      [] pc = "structure" -> 20
      [] OTHER -> 0

\* at most 9 primary and 2 fallback queries, 11 search calls; a request under way
\* can always take its next step (in a batch there is a query to send, and the
\* grading and the structuring wait for nothing); a request that has ended has an
\* output
C24_BoundedCalls ==
    /\ Len(queries) <= 9
    /\ Len(category_queries) <= 2
    /\ Len(calls) <= 11
    /\ pc = "primary" => Len(search_results) < Len(queries)
    /\ pc = "fallback" => Len(category_results) < Len(category_queries)
    /\ Running => StepsLeft > 0
    /\ pc = "done" => scraped_data # None /\ Len(calls) = Len(queries) + Len(category_queries)

\* every step of a request under way brings it nearer its end
C24_Progress == Running => StepsLeft' < StepsLeft

\* C24: given that every search call returns or raises, every run of
\* scrape_for_ad ends with an output after at most 11 search calls: at most 9
\* primary queries (6 for the competitors, market gaps, pricing, claims) and at
\* most 2 fallback queries.
C24_EndsWithinElevenCalls == [](C24_BoundedCalls) /\ [][C24_Progress]_vars

\* a request that made 9 primary and 2 fallback calls and ended with an output
C24_Witness ==
    /\ pc = "done"
    /\ Len(queries) = 9
    /\ Len(calls) = 11
    /\ DictKeySet(queries) =
          {"competitor_1_overview", "competitor_1_weaknesses", "competitor_1_vs_us",
           "competitor_2_overview", "competitor_2_weaknesses", "competitor_2_vs_us",
           "market_gaps", "pricing_comparison", "validate_claims"}
    /\ scraped_data # None

\* the queries of the batches that no structurer reads
UnreadIds ==
    {"identify_competitors", "market_pain_points", "validate_claims",
     "event_highlights", "organizer_credibility", "networking_value",
     "career_growth", "employee_satisfaction", "company_stability"}
\* the same outcomes with every answer to an unread query replaced by one answer
SameButUnread(results) ==
    [i \in 1..Len(results) |->
        IF results[i].k \in UnreadIds /\ results[i].v # None
        THEN KV(results[i].k, TerseResponse) ELSE results[i]]

\* C25: the output depends only on the queries the structurer reads.  Two runs
\* for the same subject that differ only in the answers of the searches that
\* succeeded for identify_competitors, market_pain_points or validate_claims
\* (product), event_highlights, organizer_credibility or networking_value
\* (event), career_growth, employee_satisfaction or company_stability (job) give
\* the same output: whatever these answers are, the output is the one obtained
\* with a fixed answer in their place (the tier, which counts them, being equal).
C25_UnreadAnswersIgnored ==
    pc = "returned" =>
        ret = structure_by_type(arg.ad_type, SameButUnread(arg.search_results),
                                arg.category_data, arg.data_quality, arg.subject,
                                arg.our_price, arg.competitors, ret.scraping_timestamp)

\* a product without competitors whose market_gaps search failed while the
\* market_pain_points search returned a full answer: no market gap in the output
C25_Witness ==
    /\ pc = "returned" /\ arg.ad_type = "product"
    /\ ResultOf(arg.search_results, "market_pain_points") = FullResponse("market_pain_points")
    /\ ResultOf(arg.search_results, "identify_competitors") = FullResponse("identify_competitors")
    /\ DictHas(arg.search_results, "market_gaps")
    /\ ResultOf(arg.search_results, "market_gaps") = None
    /\ SameButUnread(arg.search_results) # arg.search_results
    /\ ret.market_gaps = <<>>
    /\ ret.pricing_comparison # <<>>

---------------------------------------------------------------------------
(* generate_image_video *)

\* C26: a request whose media_type is neither 'image' nor 'video' is answered
\* with status 400, not with 500 and not with a success
C26_InvalidTypeIs400 ==
    (/\ pc = "responded"
     /\ Truthy(arg.freepik_api_key)
     /\ arg.media_type \notin {"image", "video"})
        => http_response.status_code = 400

IsVideoRequest(r) == r.method = "POST" /\ r.url = ImageToVideoUrl

\* C27: an image-to-video request carries a non-null base image URL; a base
\* image step that gives none ends the request with an error before it
C27_VideoOnlyWithBaseImage ==
    \A i \in 1..Len(sent) : IsVideoRequest(sent[i]) => sent[i].image # None

StatusRequests == Cardinality({i \in 1..Len(sent) : sent[i].method = "GET"})
ImagePolling == arg.media_type = "image" /\ pc \in {"image_poll", "responded"}
NotTerminal == {"404", "no_data", "IN_PROGRESS"}
ImageSuccess ==
    [status_code |-> 200, success |-> TRUE, media_url |-> ImageUrl,
     message |-> "Image generated successfully"]

\* C28 as stated: image polling that has ended has one of three outcomes, success at
\* COMPLETED with a URL, an error at FAILED, the timeout error after 20 polls
C28_ExactlyThreeOutcomes ==
    (ImagePolling /\ pc = "responded" /\ attempt >= 1) =>
        \/ api_answer = "COMPLETED_url" /\ http_response = ImageSuccess
        \/ api_answer = "FAILED" /\ http_response.status_code # 200
        \/ /\ attempt = ImagePolls
           /\ api_answer \in NotTerminal
           /\ http_response.detail \in {"Image generation timeout",
                                        "500: Image generation timeout"}

\* C28: image polling makes one status request per attempt and at most 20; it goes on
\* only after an answer without a terminal status (a 404 included); it ends with
\* success and the URL of the service at COMPLETED with a URL, with a 500 at FAILED,
\* with a 500 at COMPLETED without a URL, with the status of the API (or a 500) at
\* a status request that fails, and with the timeout 500 after the 20th poll
\* without a terminal status; a success always carries the URL of the service
C28_ImagePollingBounded ==
    ImagePolling =>
        /\ StatusRequests = attempt
        /\ attempt <= ImagePolls
        /\ pc = "image_poll" =>
               attempt < ImagePolls /\ api_answer \in NotTerminal \cup {"task"}
        /\ (pc = "responded" /\ attempt >= 1) =>
               CASE api_answer = "COMPLETED_url" -> http_response = ImageSuccess
                 [] api_answer = "FAILED" ->
                        http_response = HTTPException(500, "500: Image generation failed")
                 [] api_answer \in NotTerminal ->
                        /\ attempt = ImagePolls
                        /\ http_response =
                               HTTPException(500, "500: Image generation timeout")
                 [] api_answer \in {"COMPLETED_no_url", "COMPLETED_null_url", "raises"} ->
                        http_response.status_code = 500
                 [] api_answer = "http_error" ->
                        http_response.status_code \in UpstreamStatuses
        /\ (pc = "responded" /\ http_response.status_code = 200) =>
               /\ api_answer \in {"url", "COMPLETED_url"}
               /\ media_url = ImageUrl
               /\ http_response.media_url = media_url

C28_Witness ==
    /\ ImagePolling
    /\ pc = "responded"
    /\ StatusRequests = ImagePolls
    /\ api_answer = "404"
    /\ http_response = HTTPException(500, "500: Image generation timeout")

---------------------------------------------------------------------------
(* generate_image of generate_ad.py *)

CliNotTerminal == {"no_status", "IN_PROGRESS"}

\* C29 as stated: generate_image returns the URL at the first COMPLETED status, and
\* None whenever a request was answered with an HTTP error
C29_ErrorsYieldNone ==
    pc = "returned" =>
        /\ api_answer \in {"COMPLETED_url", "COMPLETED_no_images"} => ret = ImageUrl
        /\ received \cap UpstreamStatuses # {} => ret = None

\* C29: generate_image returns an image URL or None; None and no request without a
\* key; at most 15 status requests, one per attempt; the URL at the first
\* COMPLETED status that carries images, None at a COMPLETED status without
\* them, None at the first FAILED status, None at a request that raises or a
\* body that is not JSON, None after the 15th poll without a terminal status;
\* the URL is returned only when the service gave it
C29_UrlOrNone ==
    /\ attempt <= CliPolls
    /\ StatusRequests = attempt
    /\ pc = "status" =>
           attempt < CliPolls /\ api_answer \in CliNotTerminal \cup {"task", "no_data"}
    /\ pc = "returned" =>
           /\ ret \in {None, ImageUrl}
           /\ ~Truthy(arg.FREEPIK_API_KEY) => ret = None /\ sent = <<>>
           /\ attempt >= 1 =>
                  CASE api_answer = "COMPLETED_url" -> ret = ImageUrl
                    [] api_answer \in CliNotTerminal -> attempt = CliPolls /\ ret = None
                    [] OTHER -> ret = None
           /\ ret = ImageUrl => api_answer \in {"images", "COMPLETED_url"}
           /\ api_answer \in {"http_error", "raises", "not_json"} => ret = None

C29_Witness ==
    /\ pc = "returned"
    /\ attempt >= 2
    /\ received \cap UpstreamStatuses # {}
    /\ api_answer = "COMPLETED_url"
    /\ ret = ImageUrl

---------------------------------------------------------------------------
(* the chatbot wizard *)

StepKeys(n) == {steps[i].key : i \in 1..n}

\* chat_step is within 0..5, user_info has the keys of the first chat_step
\* questions and no other, messages has chat_step entries, all of the user
C30_WizardState ==
    /\ chat_step \in 0..Len(steps)
    /\ Len(user_info) = chat_step
    /\ DictKeySet(user_info) = StepKeys(chat_step)
    /\ Len(messages) = chat_step
    /\ \A i \in 1..Len(messages) : messages[i].role = "user"

\* chat_step changes by +1 with an accepted answer appended, or to 0; an ad is
\* generated only at chat_step 5
C30_WizardStep ==
    /\ chat_step' # chat_step =>
           \/ /\ chat_step' = chat_step + 1
              /\ Len(messages') = Len(messages) + 1
              /\ Accepted(steps[chat_step + 1], messages'[Len(messages')].content)
           \/ chat_step' = 0
    /\ ads_generated' # ads_generated => chat_step = Len(steps)

\* C30: chat_step stays within 0..5 and changes only by +1 on a Send with an
\* accepted answer or to 0 on a reset; user_info holds an answer for each of the
\* first chat_step keys and for no later one; messages holds chat_step user
\* messages; an ad is generated only at chat_step 5
C30_WizardInSteps == [](C30_WizardState) /\ [][C30_WizardStep]_vars

C30_Witness ==
    /\ ads_generated >= 1
    /\ chat_step = 4
    /\ DictGet(user_info, "competitor_url") = <<>>
    /\ Len(messages) = 4

====
